---- MODULE Spec2Model ----
(***************************************************************************)
(* A model of the evaluation runner (src/lib/evaluation/runner.ts), the    *)
(* JSONL fixture loader (jsonl-reader.ts, schema.ts), the expectation      *)
(* evaluators (expectations.ts), the template renderer and the line diff   *)
(* engine (src/lib/diff/text-diff.ts) of prompt-cli.                       *)
(*                                                                         *)
(* Strings whose content matters (outputs, texts, patterns) are sequences  *)
(* of one-character strings.  An optional field (TypeScript `x?: T`) is a  *)
(* sequence of length at most one: <<>> is undefined, <<v>> is the value.  *)
(***************************************************************************)
EXTENDS Integers, Sequences, FiniteSets, TLC

\* ------------------------------------------------------------------ bounds

\* Longest fixture list handed to runEvaluation.
MaxFixtures == 3

\* Most lines of a JSONL file handed to runEvaluationFromFile.
MaxFileLines == 2

\* Longest text (in characters) handed to diffText.
MaxTextLen == 4

\* The longest top-level array handed to diffJson.
MaxJsonItems == 1

\* Longest output (in characters) handed to evaluateExpectation.
MaxOutputLen == 3

\* Most files in the runs directory.
MaxResultFiles == 2

\* Most JSONL files one eval invocation evaluates.
MaxJsonlFiles == 2

\* Most pieces (literal texts and placeholders) of a rendered template.
MaxTemplatePieces == 3

\* The clock reading (in milliseconds) after which time no longer advances.
MaxClock == 2000

\* ------------------------------------------------------------ JS helpers

None == <<>>

Some(v) == <<v>>

IsSome(o) == Len(o) > 0

Min2(a, b) == IF a <= b THEN a ELSE b

Min3(a, b, c) == Min2(a, Min2(b, c))

\* A JavaScript value that is a string.
Str(s) == [t |-> "string", s |-> s, n |-> 0]

\* A JavaScript value that is a number.
Num(n) == [t |-> "number", s |-> <<>>, n |-> n]

IsSpace(c) == c \in {" ", "\n"}

\* String.prototype.toLowerCase on one character of the model's alphabet.
LowerChar(c) ==
  CASE c = "A" -> "a"
    [] c = "B" -> "b"
    [] c = "H" -> "h"
    [] OTHER -> c

ToLowerCase(s) == [k \in 1..Len(s) |-> LowerChar(s[k])]

\* String.prototype.includes: needle occurs as a contiguous run of hay.
Includes(hay, needle) ==
  \E k \in 0..(Len(hay) - Len(needle)) :
    SubSeq(hay, k + 1, k + Len(needle)) = needle

\* String(n) for a non-negative integer n.
RECURSIVE NumberToString(_)
NumberToString(n) ==
  LET digits == <<"0", "1", "2", "3", "4", "5", "6", "7", "8", "9">>
  IN  IF n < 10 THEN <<digits[n + 1]>>
      ELSE NumberToString(n \div 10) \o <<digits[(n % 10) + 1]>>

\* --------------------------------------------------------- expectations

\* countWords: 0 for an empty or all-whitespace text, otherwise the number of
\* pieces of text.trim().split(/\s+/), i.e. the number of maximal runs of
\* non-whitespace characters.
countWords(text) ==
  Cardinality({k \in 1..Len(text) :
                 /\ ~IsSpace(text[k])
                 /\ (k = 1 \/ IsSpace(text[k - 1]))})

\* The result of an operation that may throw.
Returned(v) == [threw |-> FALSE, value |-> Some(v), message |-> ""]

Threw(msg) == [threw |-> TRUE, value |-> None, message |-> msg]

NoDetails == [kind |-> "none", flag |-> FALSE, text |-> <<>>, count |-> 0]

\* evaluateContains.  `caseSensitive ?? false`; a value that is not a string
\* has no toLowerCase method, so the case-insensitive branch throws a
\* TypeError; String.prototype.includes converts a number to its digits.
evaluateContains(output, expectation) ==
  LET caseSensitive == IF IsSome(expectation.caseSensitive)
                       THEN expectation.caseSensitive[1] ELSE FALSE
      searchValue == expectation.value
  IN  IF ~caseSensitive /\ searchValue.t # "string"
      THEN Threw("searchValue.toLowerCase is not a function")
      ELSE
        LET outputToSearch == IF caseSensitive THEN output ELSE ToLowerCase(output)
            valueToFind == IF searchValue.t = "string"
                           THEN (IF caseSensitive THEN searchValue.s
                                 ELSE ToLowerCase(searchValue.s))
                           ELSE NumberToString(searchValue.n)
            passed == Includes(outputToSearch, valueToFind)
        IN  Returned([expectation |-> expectation,
                      passed |-> passed,
                      error |-> IF passed THEN None
                                ELSE Some("Output does not contain value"),
                      details |-> [kind |-> "contains", flag |-> passed,
                                   text |-> <<>>, count |-> 0]])

\* new RegExp(pattern, flags) throws a SyntaxError for a pattern with an
\* unterminated group or for an unknown flag.  The model's pattern language
\* is: literal characters, "." (any character) and "(" (opens a group that
\* the model's patterns never close); its flags are "" (none), "i"
\* (ignore case), "g" (global) and "x" (not a flag).
RegExpCompiles(pattern, flags) ==
  /\ \A k \in 1..Len(pattern) : pattern[k] # "("
  /\ flags \in {"", "i", "g"}

\* One matching attempt of a compiled pattern on output, as test and exec
\* both make it: the leftmost match that starts at lastIndex or later, as
\* Some([text, lastIndex]) with the lastIndex the attempt leaves behind, or
\* None.  Only a global pattern reads and advances lastIndex.
RegExpExec(pattern, flags, output, lastIndex) ==
  LET from == IF flags = "g" THEN lastIndex ELSE 0
      eq(p, c) == \/ p = "."
                  \/ p = c
                  \/ flags = "i" /\ LowerChar(p) = LowerChar(c)
      at(k) == \A j \in 1..Len(pattern) : eq(pattern[j], output[k + j])
      starts == {k \in from..(Len(output) - Len(pattern)) : at(k)}
  IN  IF starts = {} THEN None
      ELSE LET k == CHOOSE x \in starts : \A y \in starts : x <= y
           IN  Some([text |-> SubSeq(output, k + 1, k + Len(pattern)),
                     lastIndex |-> IF flags = "g" THEN k + Len(pattern)
                                   ELSE lastIndex])

\* Mutant of evaluateRegex: a pattern that does not compile passes.
evaluateRegex_InvalidPasses(output, expectation) ==
  [expectation |-> expectation,
   passed |-> TRUE,
   error |-> None,
   details |-> [kind |-> "regex", flag |-> TRUE, text |-> None, count |-> 0]]

\* evaluateRegex: the whole body is inside try/catch.  regex.test makes the
\* first attempt, and regex.exec, on the same RegExp object, the second:
\* `regex.exec(output)?.[0]` is undefined when the second attempt fails.
evaluateRegex(output, expectation) ==
  LET flags == IF IsSome(expectation.flags) THEN expectation.flags[1] ELSE ""
      pattern == expectation.value.s
  IN  IF RegExpCompiles(pattern, flags)
      THEN LET tested == RegExpExec(pattern, flags, output, 0)
               passed == IsSome(tested)
               again == IF passed
                        THEN RegExpExec(pattern, flags, output, tested[1].lastIndex)
                        ELSE None
           IN  [expectation |-> expectation,
                passed |-> passed,
                error |-> IF passed THEN None
                          ELSE Some("Output does not match regex pattern"),
                details |-> [kind |-> "regex", flag |-> passed,
                             text |-> IF IsSome(again) THEN Some(again[1].text)
                                      ELSE None,
                             count |-> 0]]
      ELSE [expectation |-> expectation,
            passed |-> FALSE,
            error |-> Some("Invalid regex pattern"),
            details |-> [kind |-> "regexError", flag |-> FALSE,
                         text |-> Some(pattern), count |-> 0]]

\* evaluateMaxWords.
evaluateMaxWords(output, expectation) ==
  LET wordCount == countWords(output)
      maxWords == expectation.value.n
      passed == wordCount <= maxWords
  IN  [expectation |-> expectation,
       passed |-> passed,
       error |-> IF passed THEN None ELSE Some("Output has too many words"),
       details |-> [kind |-> "maxWords", flag |-> passed,
                    text |-> <<>>, count |-> wordCount]]

\* Mutant of evaluateExpectation: the SyntaxError of a pattern that does not
\* compile is not caught.
evaluateExpectation_RegexUncaught(output, expectation) ==
  CASE expectation.type = "contains" -> evaluateContains(output, expectation)
    [] expectation.type = "regex" ->
         LET result == evaluateRegex(output, expectation)
         IN  IF result.details.kind = "regexError"
             THEN Threw("Invalid regular expression")
             ELSE Returned(result)
    [] OTHER -> Returned(evaluateMaxWords(output, expectation))

\* evaluateExpectation: dispatch on the type tag.
evaluateExpectation(output, expectation) ==
  CASE expectation.type = "contains" -> evaluateContains(output, expectation)
    [] expectation.type = "regex" -> Returned(evaluateRegex(output, expectation))
    [] expectation.type = "maxWords" ->
         Returned(evaluateMaxWords(output, expectation))
    [] OTHER -> Returned([expectation |-> expectation,
                          passed |-> FALSE,
                          error |-> Some("Unknown expectation type"),
                          details |-> NoDetails])

\* evaluateExpectations: Array.prototype.map; the first evaluator that throws
\* ends the map and the exception propagates.
evaluateExpectations(output, expectations) ==
  LET each == [k \in 1..Len(expectations) |->
                 evaluateExpectation(output, expectations[k])]
      bad == {k \in 1..Len(expectations) : each[k].threw}
  IN  IF bad = {}
      THEN Returned([k \in 1..Len(expectations) |-> each[k].value[1]])
      ELSE Threw(each[CHOOSE k \in bad : \A j \in bad : k <= j].message)

\* ------------------------------------------------------ template renderer

\* A template is a sequence of pieces: literal text, or a placeholder
\* {{name}} (what the scan with /\{\{(\w+)\}\}/g finds, left to right).
Lit(text) == [var |-> FALSE, text |-> text]

Var(name) == [var |-> TRUE, text |-> name]

\* extractVariables: the set of placeholder names of the template.
extractVariables(template) ==
  {template[k].text : k \in {j \in 1..Len(template) : template[j].var}}

\* Array.from(extractVariables(template)): a Set lists its members in
\* insertion order, here the order of first occurrence in the template.
RECURSIVE ArrayFromExtracted(_)
ArrayFromExtracted(template) ==
  IF template = <<>> THEN <<>>
  ELSE LET front == SubSeq(template, 1, Len(template) - 1)
           last == template[Len(template)]
       IN  IF last.var /\ last.text \notin extractVariables(front)
           THEN Append(ArrayFromExtracted(front), last.text)
           ELSE ArrayFromExtracted(front)

\* Array.prototype.filter on an array of names.
RECURSIVE FilterNames(_, _)
FilterNames(names, keep) ==
  IF names = <<>> THEN <<>>
  ELSE IF names[1] \in keep THEN <<names[1]>> \o FilterNames(Tail(names), keep)
       ELSE FilterNames(Tail(names), keep)

\* The value of a variable: a string, or null.
TextValue(text) == [t |-> "string", text |-> text]

NullValue == [t |-> "null", text |-> ""]

\* String(value ?? "").
StringOfValue(value) == IF value.t = "null" THEN "" ELSE value.text

\* What a failed render throws: the first line of the message and, for the
\* error about missing variables, the three lists the message spells out.
RenderError(text, missing, required, provided) == [text |-> text, missing |-> missing, required |-> required, provided |-> provided]

\* variables.hasOwnProperty(variableName) is a property lookup on the
\* variables object itself: an own key "hasOwnProperty" (whose value, coming
\* from JSON, is no function) hides Object.prototype.hasOwnProperty and the
\* call throws a TypeError.
HasOwnPropertyCallable(variables) == "hasOwnProperty" \notin DOMAIN variables

\* renderTemplate.  variables is a function from the provided names to
\* their values.  The rendered text is again a sequence of pieces: a
\* substituted placeholder becomes literal text, a placeholder left as it
\* is ("ignore") stays a placeholder.  Under "error" the check for missing
\* variables comes before the replace; the replace callback runs once per
\* placeholder of the template.
renderTemplate(template, variables, missingVariableStrategy, missingVariablePlaceholder) ==
  LET requiredVariables == extractVariables(template)
      missing == FilterNames(ArrayFromExtracted(template), requiredVariables \ DOMAIN variables)
      piece(p) ==
        IF ~p.var THEN p
        ELSE IF p.text \in DOMAIN variables
             THEN Lit(StringOfValue(variables[p.text]))
        ELSE CASE missingVariableStrategy = "warn" ->
                    Lit(missingVariablePlaceholder)
               [] missingVariableStrategy = "ignore" -> p
               [] missingVariableStrategy = "empty" -> Lit("")
               [] OTHER -> Lit(missingVariablePlaceholder)
  IN  IF missing # <<>> /\ missingVariableStrategy = "error"
      THEN Threw(RenderError("Missing required variables", missing, ArrayFromExtracted(template), DOMAIN variables))
      ELSE IF requiredVariables # {} /\ ~HasOwnPropertyCallable(variables)
           THEN Threw(RenderError("variables.hasOwnProperty is not a function", <<>>, <<>>, {}))
           ELSE Returned([k \in 1..Len(template) |-> piece(template[k])])

\* RenderOptions: each option is given or left out.
RenderOptions(strategy, placeholder) == [missingVariableStrategy |-> strategy, missingVariablePlaceholder |-> placeholder]

\* The destructuring of the options at the head of renderTemplate, with its
\* defaults.
renderTemplateWithOptions(template, variables, options) ==
  renderTemplate(template, variables, IF IsSome(options.missingVariableStrategy) THEN options.missingVariableStrategy[1] ELSE "warn", IF IsSome(options.missingVariablePlaceholder) THEN options.missingVariablePlaceholder[1] ELSE "{{MISSING}}")

\* renderTemplateWithMetadata: the two lists, then the render; a render
\* that throws is rethrown under the "error" strategy and otherwise tried
\* again under "warn".
renderTemplateWithMetadata(template, variables, options) ==
  LET requiredVariables == extractVariables(template)
      missingVariables == FilterNames(ArrayFromExtracted(template), requiredVariables \ DOMAIN variables)
      unusedVariables == DOMAIN variables \ requiredVariables
      first == renderTemplateWithOptions(template, variables, options)
      rendered ==
        IF ~first.threw THEN first
        ELSE IF options.missingVariableStrategy = Some("error") THEN first
             ELSE renderTemplateWithOptions(template, variables, [options EXCEPT !.missingVariableStrategy = Some("warn")])
  IN  IF rendered.threw THEN rendered
      ELSE Returned([rendered |-> rendered.value[1], missingVariables |-> missingVariables, unusedVariables |-> unusedVariables])

\* --------------------------------------------------------- prompt registry

\* The prompts on disk: one prompt, "greet", whose versions are sorted
\* ascending (discoverPrompt sorts them).
PromptStore ==
  [name \in {"greet"} |->
     << [version |-> "v1",
         template |-> <<Lit("Hello "), Var("userName"), Lit("!")>>],
        [version |-> "v2",
         template |-> <<Lit("Hi "), Var("userName"), Lit(", "),
                        Var("topic"), Lit("?")>>] >>]

\* A prompt reference is the list of the pieces of ref.split("@").
\* PromptDirectoryStructure.parsePromptRef.
parsePromptRef(ref) ==
  IF Len(ref) = 1 THEN Returned([name |-> ref[1], version |-> None])
  ELSE IF Len(ref) = 2
       THEN Returned([name |-> ref[1], version |-> Some(ref[2])])
       ELSE Threw("Invalid prompt reference")

\* loadPromptVersion: the named version, or the last (latest) one.
loadPromptVersion(promptRef) ==
  LET parsed == parsePromptRef(promptRef)
  IN  IF parsed.threw THEN Threw(parsed.message)
      ELSE
        LET name == parsed.value[1].name
            version == parsed.value[1].version
            versions == IF name \in DOMAIN PromptStore
                        THEN PromptStore[name] ELSE <<>>
        IN  IF IsSome(version)
            THEN LET hit == {k \in 1..Len(versions) :
                               versions[k].version = version[1]}
                 IN  IF hit = {} THEN Threw("Prompt version not found")
                     ELSE Returned(versions[CHOOSE k \in hit : TRUE])
            ELSE IF name \notin DOMAIN PromptStore
                 THEN Threw("Prompt not found")
                 ELSE IF Len(versions) = 0
                      THEN Threw("Prompt has no valid versions")
                      ELSE Returned(versions[Len(versions)])

\* ------------------------------------------------------ fixture validation

\* validateExpectation, on an expectation whose type tag is a string and
\* whose optional fields, when present, have the right type.
validateExpectation(exp) ==
  LET typeErrors ==
        IF exp.type \in {"contains", "regex", "maxWords"} THEN {}
        ELSE {"Invalid expectation type"}
      valueErrors ==
        CASE exp.type = "contains" ->
               IF exp.value.t # "string" \/ exp.value.s = <<>>
               THEN {"'contains' expectation must have a 'value' field (string)"}
               ELSE {}
          [] exp.type = "regex" ->
               IF exp.value.t # "string" \/ exp.value.s = <<>>
               THEN {"'regex' expectation must have a 'value' field (string)"}
               ELSE IF RegExpCompiles(exp.value.s,
                                      IF IsSome(exp.flags) /\ exp.flags[1] # ""
                                      THEN exp.flags[1] ELSE "")
                    THEN {} ELSE {"Invalid regex pattern"}
          [] exp.type = "maxWords" ->
               IF exp.value.t # "number"
               THEN {"'maxWords' expectation must have a 'value' field (number)"}
               ELSE IF exp.value.n < 0
                    THEN {"'maxWords' value must be non-negative"} ELSE {}
          [] OTHER -> {}
  IN  typeErrors \cup valueErrors

\* validateFixture, on a parsed JSON object: each of prompt, variables and
\* expectations is optional in the object.  The result is the set of errors.
validateFixture(fix) ==
  LET promptErrors ==
        IF ~IsSome(fix.prompt) \/ fix.prompt[1] = <<"">>
        THEN {"Fixture must have a 'prompt' field (string)"} ELSE {}
      variablesErrors ==
        IF ~IsSome(fix.variables)
        THEN {"Fixture must have a 'variables' field (object)"} ELSE {}
      expectationsErrors ==
        IF ~IsSome(fix.expectations)
        THEN {"Fixture must have an 'expectations' field"}
        ELSE LET exps == fix.expectations[1]
             IN  IF \E k \in 1..Len(exps) : validateExpectation(exps[k]) # {}
                 THEN {"Expectation is invalid"} ELSE {}
  IN  promptErrors \cup variablesErrors \cup expectationsErrors

\* A line of a JSONL file: blank, text that JSON.parse rejects, or the JSON
\* text of an object.
BlankLine == [kind |-> "blank", object |-> None]

BrokenLine == [kind |-> "broken", object |-> None]

JsonLine(obj) == [kind |-> "json", object |-> Some(obj)]

\* validateJsonlLine: JSON.parse, then validateFixture.
validateJsonlLine(line) ==
  IF line.kind # "json" THEN {"Invalid JSON"}
  ELSE validateFixture(line.object[1])

\* JSON.parse(line) as EvaluationFixture, for a line that passed validation.
AsFixture(obj) ==
  [prompt |-> obj.prompt[1],
   variables |-> obj.variables[1],
   expectations |-> obj.expectations[1]]

\* Mutant of readJsonlFile: an invalid line is skipped without an error.
RECURSIVE readJsonlFile_SkipInvalid(_)
readJsonlFile_SkipInvalid(lines) ==
  IF lines = <<>> THEN [fixtures |-> <<>>, errors |-> <<>>]
  ELSE LET rest == readJsonlFile_SkipInvalid(Tail(lines))
           line == Head(lines)
       IN  IF line.kind = "blank" \/ validateJsonlLine(line) # {} THEN rest
           ELSE [fixtures |-> <<AsFixture(line.object[1])>> \o rest.fixtures,
                 errors |-> rest.errors]

\* readJsonlFile: blank lines are skipped, an invalid line adds an error and
\* is skipped, a valid line adds its fixture; the order of the lines is kept.
RECURSIVE readJsonlFile(_)
readJsonlFile(lines) ==
  IF lines = <<>> THEN [fixtures |-> <<>>, errors |-> <<>>]
  ELSE LET rest == readJsonlFile(Tail(lines))
           line == Head(lines)
       IN  IF line.kind = "blank" THEN rest
           ELSE IF validateJsonlLine(line) # {}
                THEN [fixtures |-> rest.fixtures,
                      errors |-> <<line>> \o rest.errors]
                ELSE [fixtures |-> <<AsFixture(line.object[1])>> \o rest.fixtures,
                      errors |-> rest.errors]

\* ------------------------------------------------------- evaluateFixture

\* Mutant of EvaluateFixtureCatch: the catch block forgets the error.
EvaluateFixtureCatch_NoError(fixture, message) ==
  [fixture |-> fixture,
   renderedPrompt |-> <<>>,
   output |-> None,
   expectationResults |-> <<>>,
   passed |-> FALSE,
   error |-> None,
   latency |-> None,
   tokens |-> None]

\* The result evaluateFixture returns from its catch block.
EvaluateFixtureCatch(fixture, message) ==
  [fixture |-> fixture,
   renderedPrompt |-> <<>>,
   output |-> None,
   expectationResults |-> <<>>,
   passed |-> FALSE,
   error |-> Some(message),
   latency |-> None,
   tokens |-> None]

\* evaluateFixture up to its await: load the prompt version, then render
\* its template with the "error" strategy.  Returns the rendered prompt or
\* throws (into evaluateFixture's own catch).
EvaluateFixtureRender(fixture) ==
  LET promptVersion == loadPromptVersion(fixture.prompt)
      rendered == renderTemplateWithOptions(promptVersion.value[1].template, fixture.variables, RenderOptions(Some("error"), None))
  IN  IF promptVersion.threw THEN Threw(promptVersion.message)
      ELSE IF rendered.threw THEN Threw(rendered.message.text)
           ELSE rendered

\* Mutant of FixtureResultOf: `some` in place of `every`.
FixtureResultOf_SomePassed(fixture, renderedPrompt, providerResult, expectationResults) ==
  [fixture |-> fixture,
   renderedPrompt |-> renderedPrompt,
   output |-> Some(providerResult.output),
   expectationResults |-> expectationResults,
   passed |-> \E k \in 1..Len(expectationResults) :
                expectationResults[k].passed,
   error |-> None,
   latency |-> None,
   tokens |-> None]

\* The FixtureResult object built on the success path: the fields the
\* return statement sets.
FixtureResultOf(fixture, renderedPrompt, providerResult, expectationResults) ==
  [fixture |-> fixture,
   renderedPrompt |-> renderedPrompt,
   output |-> Some(providerResult.output),
   expectationResults |-> expectationResults,
   passed |-> \A k \in 1..Len(expectationResults) :
                expectationResults[k].passed,
   error |-> None,
   latency |-> None,
   tokens |-> None]

\* evaluateFixture after provider.generate resolved: score the output; an
\* exception of an evaluator lands in the same catch block.
EvaluateFixtureScore(fixture, renderedPrompt, providerResult) ==
  LET scored == evaluateExpectations(providerResult.output,
                                     fixture.expectations)
  IN  IF scored.threw THEN EvaluateFixtureCatch(fixture, scored.message)
      ELSE FixtureResultOf(fixture, renderedPrompt, providerResult,
                           scored.value[1])

\* ---------------------------------------------------------------- inputs

OutputHiBob == <<"H", "i", " ", "B", "o", "b">>

OutputOk == <<"o", "k">>

\* What a call of provider.generate may do: resolve with a ProviderResult
\* (tokens are optional) or reject with an Error.
BackendOutcomes ==
  { Returned([output |-> OutputHiBob, latency |-> 120,
              tokens |-> Some([input |-> 3, output |-> 2, total |-> 5])]),
    Returned([output |-> OutputOk, latency |-> 80, tokens |-> None]),
    Threw("API request failed") }

ContainsExp(value) ==
  [type |-> "contains", value |-> value, caseSensitive |-> None, flags |-> None]

RegexExp(pattern) ==
  [type |-> "regex", value |-> Str(pattern), caseSensitive |-> None,
   flags |-> None]

MaxWordsExp(limit) ==
  [type |-> "maxWords", value |-> Num(limit), caseSensitive |-> None,
   flags |-> None]

Alice == [n \in {"userName"} |-> TextValue("Alice")]

AliceOnTopic == [n \in {"userName", "topic"} |->
                   IF n = "userName" THEN TextValue("Alice") ELSE TextValue("tea")]

FxNoExpectations ==
  [prompt |-> <<"greet", "v1">>, variables |-> Alice, expectations |-> <<>>]

FxContainsBob ==
  [prompt |-> <<"greet">>, variables |-> AliceOnTopic,
   expectations |-> <<ContainsExp(Str(<<"b", "o", "b">>)),
                      RegexExp(<<"B", ".", "b">>)>>]

FxMixed ==
  [prompt |-> <<"greet", "v1">>, variables |-> Alice,
   expectations |-> <<MaxWordsExp(1), ContainsExp(Str(<<"B", "o", "b">>))>>]

FxMissingVariable ==
  [prompt |-> <<"greet">>, variables |-> Alice,
   expectations |-> <<MaxWordsExp(1)>>]

FxNoPrompt ==
  [prompt |-> <<"nonexistent", "v1">>, variables |-> Alice,
   expectations |-> <<>>]

FxWrongType ==
  [prompt |-> <<"greet", "v1">>, variables |-> Alice,
   expectations |-> <<MaxWordsExp(2), ContainsExp(Num(5))>>]

\* The fixtures a caller of runEvaluation may pass.
FixturePool ==
  {FxNoExpectations, FxContainsBob, FxMixed, FxMissingVariable, FxNoPrompt,
   FxWrongType}

\* The JSON text of a fixture.
JsonOf(fixture) ==
  [prompt |-> Some(fixture.prompt),
   variables |-> Some(fixture.variables),
   expectations |-> Some(fixture.expectations)]

\* The lines a JSONL file may hold.
LinePool ==
  { BlankLine,
    BrokenLine,
    JsonLine(JsonOf(FxNoExpectations)),
    JsonLine(JsonOf(FxContainsBob)),
    JsonLine([prompt |-> Some(<<"greet", "v1">>), variables |-> None,
              expectations |-> Some(<<MaxWordsExp(1)>>)]),
    JsonLine([prompt |-> Some(<<"greet", "v1">>), variables |-> Some(Alice),
              expectations |-> Some(<<ContainsExp(Str(<<>>))>>)]) }

\* All sequences over S of length at most n.
SeqsUpTo(S, n) == UNION {[1..k -> S] : k \in 0..n}

\* The outputs handed to evaluateExpectation.
OutputAlphabet == {"a", "B", " "}

Outputs == SeqsUpTo(OutputAlphabet, MaxOutputLen)

\* The well-typed expectations handed to evaluateExpectation: a string for
\* contains and regex (a pattern that compiles or not, flags that exist or
\* not), a number for maxWords.
ExpectationPool ==
  {[type |-> "contains", value |-> Str(s), caseSensitive |-> c, flags |-> None] :
     s \in {<<"a">>, <<"b">>, <<"B", " ">>}, c \in {None, Some(TRUE), Some(FALSE)}}
    \cup {[type |-> "regex", value |-> Str(s), caseSensitive |-> None, flags |-> f] :
            s \in {<<"a">>, <<"b">>, <<"a", ".">>, <<"(">>, <<"a", "(">>},
            f \in {None, Some(""), Some("i"), Some("g"), Some("x")}}
    \cup {MaxWordsExp(n) : n \in {0, 1, 2}}

\* -------------------------------------------------------------- line diff

\* text.split(/\r?\n/): the lines of a text; a "\r" right before the "\n"
\* belongs to the separator.  cur is the line being read.
RECURSIVE SplitFrom(_, _)
SplitFrom(text, cur) ==
  IF text = <<>> THEN <<cur>>
  ELSE IF Head(text) = "\n"
       THEN LET line == IF cur # <<>> /\ cur[Len(cur)] = "\r"
                        THEN SubSeq(cur, 1, Len(cur) - 1) ELSE cur
            IN  <<line>> \o SplitFrom(Tail(text), <<>>)
       ELSE SplitFrom(Tail(text), Append(cur, Head(text)))

\* The empty text has no lines (not one empty line).
SplitLines(text) == IF text = <<>> THEN <<>> ELSE SplitFrom(text, <<>>)

\* One cell of the table: dp[i][j] from the three neighbours.
DpCell(same, up, left, diag) ==
  IF same THEN diag ELSE 1 + Min3(up, left, diag)

\* Row i (i >= 1) of the table, filled left to right; row holds the cells
\* dp[i][0..Len(row)-1] already filled, prev is row i-1.  Sequence index
\* j+1 holds column j.
RECURSIVE FillRow(_, _, _, _, _)
FillRow(oldLines, newLines, prev, i, row) ==
  LET j == Len(row)
  IN  IF j > Len(newLines) THEN row
      ELSE FillRow(oldLines, newLines, prev, i,
                   Append(row, DpCell(oldLines[i] = newLines[j],
                                      prev[j + 1], row[j], prev[j])))

\* The table, rows 0..i: sequence index i+1 holds row i.  Row 0 is
\* dp[0][j] = j and column 0 is dp[i][0] = i.
RECURSIVE DpRows(_, _, _)
DpRows(oldLines, newLines, i) ==
  IF i = 0 THEN << [j \in 1..(Len(newLines) + 1) |-> j - 1] >>
  ELSE LET above == DpRows(oldLines, newLines, i - 1)
       IN  Append(above, FillRow(oldLines, newLines, above[i], i, <<i>>))

\* Mutant of Backtrack: an unchanged entry numbered by its position in the
\* new text.
RECURSIVE Backtrack_NewIndex(_, _, _, _, _)
Backtrack_NewIndex(oldLines, newLines, dp, i, j) ==
  IF ~(i > 0 \/ j > 0) THEN <<>>
  ELSE IF i > 0 /\ j > 0 /\ oldLines[i] = newLines[j]
       THEN Append(Backtrack_NewIndex(oldLines, newLines, dp, i - 1, j - 1),
                   [type |-> "unchanged", content |-> oldLines[i],
                    lineNumber |-> Some(j)])
       ELSE IF j > 0 /\ (i = 0 \/ dp[i + 1][j] <= dp[i][j + 1])
            THEN Append(Backtrack_NewIndex(oldLines, newLines, dp, i, j - 1),
                        [type |-> "added", content |-> newLines[j],
                         lineNumber |-> None])
            ELSE Append(Backtrack_NewIndex(oldLines, newLines, dp, i - 1, j),
                        [type |-> "removed", content |-> oldLines[i],
                         lineNumber |-> Some(i)])

\* Mutant of Backtrack: a removed entry stands for a replaced line, and the
\* step consumes the new line as well.
RECURSIVE Backtrack_ReplaceStep(_, _, _, _, _)
Backtrack_ReplaceStep(oldLines, newLines, dp, i, j) ==
  IF ~(i > 0 \/ j > 0) THEN <<>>
  ELSE IF i > 0 /\ j > 0 /\ oldLines[i] = newLines[j]
       THEN Append(Backtrack_ReplaceStep(oldLines, newLines, dp, i - 1, j - 1),
                   [type |-> "unchanged", content |-> oldLines[i],
                    lineNumber |-> Some(i)])
       ELSE IF j > 0 /\ (i = 0 \/ dp[i + 1][j] <= dp[i][j + 1])
            THEN Append(Backtrack_ReplaceStep(oldLines, newLines, dp, i, j - 1),
                        [type |-> "added", content |-> newLines[j],
                         lineNumber |-> None])
            ELSE Append(Backtrack_ReplaceStep(oldLines, newLines, dp, i - 1,
                                              IF j > 0 THEN j - 1 ELSE 0),
                        [type |-> "removed", content |-> oldLines[i],
                         lineNumber |-> Some(i)])

\* The backtrack from (i, j); each step unshifts one entry, so the entries
\* of the steps still to come precede it.
RECURSIVE Backtrack(_, _, _, _, _)
Backtrack(oldLines, newLines, dp, i, j) ==
  IF ~(i > 0 \/ j > 0) THEN <<>>
  ELSE IF i > 0 /\ j > 0 /\ oldLines[i] = newLines[j]
       THEN Append(Backtrack(oldLines, newLines, dp, i - 1, j - 1),
                   [type |-> "unchanged", content |-> oldLines[i],
                    lineNumber |-> Some(i)])
       ELSE IF j > 0 /\ (i = 0 \/ dp[i + 1][j] <= dp[i][j + 1])
            THEN Append(Backtrack(oldLines, newLines, dp, i, j - 1),
                        [type |-> "added", content |-> newLines[j],
                         lineNumber |-> None])
            ELSE Append(Backtrack(oldLines, newLines, dp, i - 1, j),
                        [type |-> "removed", content |-> oldLines[i],
                         lineNumber |-> Some(i)])

\* Mutant of computeLineDiff: the two line sequences exchanged.
computeLineDiff_Swapped(oldLines, newLines) ==
  Backtrack(newLines, oldLines,
            DpRows(newLines, oldLines, Len(newLines)),
            Len(newLines), Len(oldLines))

computeLineDiff(oldLines, newLines) ==
  Backtrack(oldLines, newLines,
            DpRows(oldLines, newLines, Len(oldLines)),
            Len(oldLines), Len(newLines))

CountType(diff, type) ==
  Cardinality({k \in 1..Len(diff) : diff[k].type = type})

\* Mutant of diffText: hasChanges taken from the presence of entries.
diffText_ChangesWhenLines(old, new) ==
  LET diff == computeLineDiff(SplitLines(old), SplitLines(new))
  IN  [lines |-> diff,
       addedCount |-> CountType(diff, "added"),
       removedCount |-> CountType(diff, "removed"),
       unchangedCount |-> CountType(diff, "unchanged"),
       hasChanges |-> diff # <<>>]

diffText(old, new) ==
  LET diff == computeLineDiff(SplitLines(old), SplitLines(new))
      addedCount == CountType(diff, "added")
      removedCount == CountType(diff, "removed")
  IN  [lines |-> diff,
       addedCount |-> addedCount,
       removedCount |-> removedCount,
       unchangedCount |-> CountType(diff, "unchanged"),
       hasChanges |-> addedCount > 0 \/ removedCount > 0]

\* The characters of the texts handed to diffText.
TextAlphabet == {"a", "b", "\n"}

Texts == SeqsUpTo(TextAlphabet, MaxTextLen)

\* ------------------------------------------------------------- JSON diff

\* JSON-like values.  A container keeps its properties in kids, in insertion
\* order, as [key, value] entries; an array's keys are its indices.
JUndefined == [t |-> "undefined", v |-> 0, kids |-> <<>>]

JNull == [t |-> "null", v |-> 0, kids |-> <<>>]

JNumber(n) == [t |-> "number", v |-> n, kids |-> <<>>]

JArray(items) ==
  [t |-> "array", v |-> 0,
   kids |-> [k \in 1..Len(items) |->
               [key |-> NumberToString(k - 1), value |-> items[k]]]]

JObject(entries) == [t |-> "object", v |-> 0, kids |-> entries]

\* Object.keys(obj), in insertion order.
ObjectKeys(obj) == [k \in 1..Len(obj.kids) |-> obj.kids[k].key]

\* key in obj
HasKey(obj, key) == \E k \in 1..Len(obj.kids) : obj.kids[k].key = key

\* obj[key]: undefined for a key the object does not have.
GetKey(obj, key) ==
  IF HasKey(obj, key)
  THEN obj.kids[CHOOSE k \in 1..Len(obj.kids) : obj.kids[k].key = key].value
  ELSE JUndefined

\* Mutant of IsNullish: only undefined counts.
IsNullish_OnlyUndefined(value) == value.t = "undefined"

\* value === null || value === undefined
IsNullish(value) == value.t \in {"null", "undefined"}

isPrimitive(value) ==
  value.t \in {"null", "undefined", "string", "number", "boolean"}

isObject(value) == value.t = "object"

\* a !== b on two primitives.
StrictNotEqual(a, b) == a.t # b.t \/ a.v # b.v

\* One entry of the changes list.
Change(path, type, oldValue, newValue) ==
  [path |-> path, type |-> type, oldValue |-> oldValue, newValue |-> newValue]

buildResult(changes) ==
  LET count(type) == Cardinality({k \in 1..Len(changes) : changes[k].type = type})
  IN  [changes |-> changes,
       addedCount |-> count("added"),
       removedCount |-> count("removed"),
       modifiedCount |-> count("modified"),
       hasChanges |-> Len(changes) > 0]

\* The pushes of a loop, in order: the concatenation of what each round
\* pushed.
RECURSIVE Pushed(_)
Pushed(rounds) ==
  IF rounds = <<>> THEN <<>> ELSE Head(rounds) \o Pushed(Tail(rounds))

\* The keys of a Set built from two key lists: insertion order, no repeats.
RECURSIVE SetOfKeys(_, _)
SetOfKeys(keys, seen) ==
  IF keys = <<>> THEN seen
  ELSE IF \E k \in 1..Len(seen) : seen[k] = Head(keys)
       THEN SetOfKeys(Tail(keys), seen)
       ELSE SetOfKeys(Tail(keys), Append(seen, Head(keys)))

RootPath == <<"r", "o", "o", "t">>

\* `${basePath}.${key}`, or key alone for an empty (falsy) basePath.
JoinPath(basePath, key) ==
  IF basePath # <<>> THEN basePath \o <<".">> \o key ELSE key

RECURSIVE diffJson(_, _, _)
RECURSIVE diffArrays(_, _, _)
RECURSIVE diffObjects(_, _, _)

diffJson(oldObj, newObj, basePath) ==
  LET here == IF basePath # <<>> THEN basePath ELSE RootPath
  IN  IF IsNullish(oldObj)
      THEN buildResult(IF ~IsNullish(newObj)
                       THEN <<Change(here, "added", None, Some(newObj))>>
                       ELSE <<>>)
      ELSE IF IsNullish(newObj)
      THEN buildResult(<<Change(here, "removed", Some(oldObj), None)>>)
      ELSE IF isPrimitive(oldObj) \/ isPrimitive(newObj)
      THEN buildResult(IF StrictNotEqual(oldObj, newObj)
                       THEN <<Change(here, "modified", Some(oldObj), Some(newObj))>>
                       ELSE <<>>)
      ELSE IF oldObj.t = "array" /\ newObj.t = "array"
      THEN diffArrays(oldObj, newObj, basePath)
      ELSE IF isObject(oldObj) /\ isObject(newObj)
      THEN diffObjects(oldObj, newObj, basePath)
      ELSE buildResult(<<Change(here, "modified", Some(oldObj), Some(newObj))>>)

diffArrays(oldArr, newArr, basePath) ==
  LET maxLength == IF Len(oldArr.kids) >= Len(newArr.kids)
                   THEN Len(oldArr.kids) ELSE Len(newArr.kids)
      round(i) ==
        LET path == JoinPath(basePath, NumberToString(i))
            oldItem == IF i < Len(oldArr.kids) THEN oldArr.kids[i + 1].value
                       ELSE JUndefined
            newItem == IF i < Len(newArr.kids) THEN newArr.kids[i + 1].value
                       ELSE JUndefined
        IN  IF oldItem.t = "undefined" /\ newItem.t # "undefined"
            THEN <<Change(path, "added", None, Some(newItem))>>
            ELSE IF oldItem.t # "undefined" /\ newItem.t = "undefined"
            THEN <<Change(path, "removed", Some(oldItem), None)>>
            ELSE IF oldItem.t # "undefined" /\ newItem.t # "undefined"
            THEN IF isPrimitive(oldItem) /\ isPrimitive(newItem)
                 THEN IF StrictNotEqual(oldItem, newItem)
                      THEN <<Change(path, "modified", Some(oldItem), Some(newItem))>>
                      ELSE <<>>
                 ELSE diffJson(oldItem, newItem, path).changes
            ELSE <<>>
  IN  buildResult(Pushed([k \in 1..maxLength |-> round(k - 1)]))

diffObjects(oldObj, newObj, basePath) ==
  LET allKeys == SetOfKeys(ObjectKeys(oldObj) \o ObjectKeys(newObj), <<>>)
      round(key) ==
        LET path == JoinPath(basePath, key)
            oldValue == GetKey(oldObj, key)
            newValue == GetKey(newObj, key)
        IN  IF ~HasKey(oldObj, key) /\ HasKey(newObj, key)
            THEN <<Change(path, "added", None, Some(newValue))>>
            ELSE IF HasKey(oldObj, key) /\ ~HasKey(newObj, key)
            THEN <<Change(path, "removed", Some(oldValue), None)>>
            ELSE IF HasKey(oldObj, key) /\ HasKey(newObj, key)
            THEN IF isPrimitive(oldValue) /\ isPrimitive(newValue)
                 THEN IF StrictNotEqual(oldValue, newValue)
                      THEN <<Change(path, "modified", Some(oldValue), Some(newValue))>>
                      ELSE <<>>
                 ELSE diffJson(oldValue, newValue, path).changes
            ELSE <<>>
  IN  buildResult(Pushed([k \in 1..Len(allKeys) |-> round(allKeys[k])]))

\* The values handed to diffJson: scalars, containers of scalars, and
\* containers of those.
JsonLeaves == {JUndefined, JNull, JNumber(1), JNumber(2)}

KeyA == <<"a">>

KeyB == <<"b">>

KeyADotB == <<"a", ".", "b">>

JsonInner ==
  JsonLeaves
    \cup {JObject(<<>>)}
    \cup {JObject(<<[key |-> KeyB, value |-> x]>>) : x \in JsonLeaves}
    \cup {JArray(<<>>)}
    \cup {JArray(<<x>>) : x \in JsonLeaves}

\* The entries of an object that may hold key under one of the values.
MaybeEntry(key, values) ==
  {<<>>} \cup {<<[key |-> key, value |-> x]>> : x \in values}

JsonValues ==
  JsonLeaves
    \cup {JObject(e1 \o e2) : e1 \in MaybeEntry(KeyA, JsonInner),
                              e2 \in MaybeEntry(KeyADotB, JsonInner)}
    \cup {JArray(items) : items \in SeqsUpTo(JsonInner, MaxJsonItems)}

\* ------------------------------------------------------------ aggregation

\* The characters of the names that occur in prompt references.
Chars(name) ==
  CASE name = "greet" -> <<"g", "r", "e", "e", "t">>
    [] name = "nonexistent" -> <<"n", "o", "n", "e", "x", "i", "s", "t", "e", "n", "t">>
    [] name = "v1" -> <<"v", "1">>
    [] name = "v2" -> <<"v", "2">>
    [] OTHER -> <<>>

\* fixture.prompt as the string it is: the pieces of the reference, joined
\* by "@".
RECURSIVE RefString(_)
RefString(ref) ==
  IF ref = <<>> THEN <<>>
  ELSE IF Len(ref) = 1 THEN Chars(ref[1])
       ELSE Chars(ref[1]) \o <<"@">> \o RefString(Tail(ref))

RECURSIVE Sum(_)
Sum(numbers) ==
  IF numbers = <<>> THEN 0 ELSE Head(numbers) + Sum(Tail(numbers))

\* results.flatMap((r) => r.fixtureResults)
RECURSIVE FlatMapFixtureResults(_)
FlatMapFixtureResults(results) ==
  IF results = <<>> THEN <<>>
  ELSE Head(results).fixtureResults \o FlatMapFixtureResults(Tail(results))

\* results.reduce((sum, r) => sum + r.passRate, 0), as an exact fraction.
RECURSIVE SumPassRates(_)
SumPassRates(results) ==
  IF results = <<>> THEN [num |-> 0, den |-> 1]
  ELSE LET rest == SumPassRates(Tail(results))
           rate == Head(results).passRate
       IN  [num |-> rest.num * rate.den + rate.num * rest.den,
            den |-> rest.den * rate.den]

\* Mutant of aggregateResults: the overall pass rate is the mean of the
\* runs' pass rates.
aggregateResults_MeanOfRates(results) ==
  IF Len(results) = 0 THEN Threw("Cannot aggregate empty results array")
  ELSE
    LET allFixtureResults == FlatMapFixtureResults(results)
        totalFixtures == Len(allFixtureResults)
        totalPassed == Len(SelectSeq(allFixtureResults, LAMBDA r : r.passed))
        rates == SumPassRates(results)
        averagePassRate == [num |-> rates.num, den |-> rates.den * Len(results)]
        runsWithTokens == SelectSeq(results, LAMBDA r : IsSome(r.totalTokens))
        runsWithLatency == SelectSeq(results, LAMBDA r : IsSome(r.averageLatency))
        totalDuration == Sum([k \in 1..Len(results) |-> results[k].duration])
        dates == {results[k].startedAt : k \in 1..Len(results)}
    IN  Returned(
          [totalRuns |-> Len(results),
           totalFixtures |-> totalFixtures,
           totalPassed |-> totalPassed,
           totalFailed |-> totalFixtures - totalPassed,
           overallPassRate |-> averagePassRate,
           averagePassRate |-> averagePassRate,
           totalTokens |->
             IF Len(runsWithTokens) > 0
             THEN Some([input |-> Sum([k \in 1..Len(runsWithTokens) |-> runsWithTokens[k].totalTokens[1].input]),
                        output |-> Sum([k \in 1..Len(runsWithTokens) |-> runsWithTokens[k].totalTokens[1].output]),
                        total |-> Sum([k \in 1..Len(runsWithTokens) |-> runsWithTokens[k].totalTokens[1].total])])
             ELSE None,
           averageLatency |->
             IF Len(runsWithLatency) > 0
             THEN Some([num |-> Sum([k \in 1..Len(runsWithLatency) |-> runsWithLatency[k].averageLatency[1].num]),
                        den |-> Len(runsWithLatency)])
             ELSE None,
           totalDuration |-> totalDuration,
           averageDuration |-> [num |-> totalDuration, den |-> Len(results)],
           runs |-> results,
           allFixtureResults |-> allFixtureResults,
           dateRange |-> [earliest |-> CHOOSE d \in dates : \A e \in dates : d <= e,
                          latest |-> CHOOSE d \in dates : \A e \in dates : d >= e]])

\* aggregateResults.  Rates and averages are exact fractions [num, den].
aggregateResults(results) ==
  IF Len(results) = 0 THEN Threw("Cannot aggregate empty results array")
  ELSE
    LET allFixtureResults == FlatMapFixtureResults(results)
        totalFixtures == Len(allFixtureResults)
        totalPassed == Len(SelectSeq(allFixtureResults, LAMBDA r : r.passed))
        rates == SumPassRates(results)
        runsWithTokens == SelectSeq(results, LAMBDA r : IsSome(r.totalTokens))
        runsWithLatency == SelectSeq(results, LAMBDA r : IsSome(r.averageLatency))
        totalDuration == Sum([k \in 1..Len(results) |-> results[k].duration])
        dates == {results[k].startedAt : k \in 1..Len(results)}
    IN  Returned(
          [totalRuns |-> Len(results),
           totalFixtures |-> totalFixtures,
           totalPassed |-> totalPassed,
           totalFailed |-> totalFixtures - totalPassed,
           overallPassRate |-> IF totalFixtures > 0
                               THEN [num |-> totalPassed, den |-> totalFixtures]
                               ELSE [num |-> 0, den |-> 1],
           averagePassRate |-> [num |-> rates.num, den |-> rates.den * Len(results)],
           totalTokens |->
             IF Len(runsWithTokens) > 0
             THEN Some([input |-> Sum([k \in 1..Len(runsWithTokens) |-> runsWithTokens[k].totalTokens[1].input]),
                        output |-> Sum([k \in 1..Len(runsWithTokens) |-> runsWithTokens[k].totalTokens[1].output]),
                        total |-> Sum([k \in 1..Len(runsWithTokens) |-> runsWithTokens[k].totalTokens[1].total])])
             ELSE None,
           averageLatency |->
             IF Len(runsWithLatency) > 0
             THEN Some([num |-> Sum([k \in 1..Len(runsWithLatency) |-> runsWithLatency[k].averageLatency[1].num]),
                        den |-> Len(runsWithLatency)])
             ELSE None,
           totalDuration |-> totalDuration,
           averageDuration |-> [num |-> totalDuration, den |-> Len(results)],
           runs |-> results,
           allFixtureResults |-> allFixtureResults,
           dateRange |-> [earliest |-> CHOOSE d \in dates : \A e \in dates : d <= e,
                          latest |-> CHOOSE d \in dates : \A e \in dates : d >= e]])

\* A file of the runs directory: a saved run, or something loadResults
\* rejects.
ResultFile(run) == [valid |-> TRUE, run |-> Some(run)]

InvalidResultFile == [valid |-> FALSE, run |-> None]

\* aggregateRuns, on the files listResults returns (newest first).  The
\* callers pass no dateRange.
aggregateRuns(files, maxRuns, promptName) ==
  LET resultFiles == IF IsSome(maxRuns) /\ maxRuns[1] # 0
                     THEN SubSeq(files, 1, Min2(maxRuns[1], Len(files)))
                     ELSE files
      hasPrompt(result) ==
        \E k \in 1..Len(result.fixtureResults) :
          Includes(RefString(result.fixtureResults[k].fixture.prompt),
                   Chars(promptName[1]))
      kept(file) ==
        /\ file.valid
        /\ (IsSome(promptName) /\ promptName[1] # "") => hasPrompt(file.run[1])
      loaded == SelectSeq(resultFiles, kept)
      results == [k \in 1..Len(loaded) |-> loaded[k].run[1]]
  IN  IF Len(results) = 0
      THEN Threw("No evaluation results found to aggregate.")
      ELSE aggregateResults(results)

aggregatePromptResults(files, promptName) ==
  aggregateRuns(files, None, Some(promptName))

aggregateRecentRuns(files, count) == aggregateRuns(files, Some(count), None)

\* ----------------------------------------------------------------- state

VARIABLES
  entry,           \* "direct": runEvaluation, "file": runEvaluationFromFile,
                   \* "diff": a call of diffText, "json": a call of diffJson,
                   \* "expect": a call of evaluateExpectation
  fileLines,       \* the lines of the JSONL file (entry = "file")
  fixtures,        \* the fixtures argument of runEvaluation
  stopOnError,     \* options.stopOnError (undefined counts as false)
  continueOnError, \* options.continueOnError after its default, true
  saveOption,      \* options.saveResults: None (undefined), Some(TRUE/FALSE)
  pc,              \* "read", "loop", "stats", "done", "thrown", "idle"
  i,               \* how many fixtures the for loop has taken up
  inFlight,        \* the provider.generate calls not yet settled
  fixtureResults,  \* the fixtureResults array of runEvaluation
  evalLog,         \* the fixture indices evaluateFixture was called for
  backendCalls,    \* the fixture indices provider.generate was called for
  backendReports,  \* how each settled generate call ended, in settling order
  scoredLog,       \* the fixture indices evaluateExpectations ran for
  returned,        \* the RunResult runEvaluation returned, if it has
  saveCalls,       \* the RunResults handed to saveResults, in call order
  oldText,         \* diffText's first argument
  newText,         \* diffText's second argument
  forward,         \* diffText(oldText, newText), once computed
  backward,        \* diffText(newText, oldText), once computed
  jsonOld,         \* diffJson's first argument
  jsonNew,         \* diffJson's second argument
  jsonDiff,        \* diffJson(jsonOld, jsonNew), once computed
  expOutput,       \* evaluateExpectation's first argument
  expExpectation,  \* evaluateExpectation's second argument
  expResult,       \* how evaluateExpectation(expOutput, expExpectation)
                   \* ended, once it has
  runFiles,        \* the files of the runs directory, newest first
  aggCall,         \* the aggregation function called, with its argument
  aggregated,      \* how that call ended, once it has
  clock,           \* the system time, in milliseconds
  jsonlFiles,      \* how many JSONL files discoverJsonlFiles found
  noSave,          \* flags["no-save"]
  fileIndex,       \* how many JSONL files evaluateAllFiles has taken up
  evalPc,          \* "discover", "next", "running", "done", "error",
                   \* "thrown", "idle"
  runsDir,         \* the runs directory: [filename, run] per file
  savedLog,        \* the saveResults calls: [run, filename], in call order
  renderCall,      \* a call of the template renderer: function and arguments
  renderOutcome    \* how that call ended, once it has

runnerVars ==
  <<fileLines, fixtures, stopOnError, continueOnError, saveOption, pc, i,
    inFlight, fixtureResults, evalLog, backendCalls, backendReports,
    scoredLog, returned, saveCalls>>

diffVars == <<oldText, newText, forward, backward>>

jsonVars == <<jsonOld, jsonNew, jsonDiff>>

expVars == <<expOutput, expExpectation, expResult>>

aggVars == <<runFiles, aggCall, aggregated>>

evalVars == <<clock, jsonlFiles, noSave, fileIndex, evalPc, runsDir, savedLog>>

renderVars == <<renderCall, renderOutcome>>

vars == <<entry, runnerVars, diffVars, jsonVars, expVars, aggVars, evalVars, renderVars>>

\* ------------------------------------------------------------ runEvaluation

\* Mutant of AwaitSettled: evaluateFixture is called without await.
AwaitSettled_NoAwait(calls) == TRUE

\* `await`: the for loop goes on only when the call it awaits has settled.
AwaitSettled(calls) == calls = {}

\* Mutant of LoopBody: the break after a failed result is missing.
LoopBody_NoBreak(settled, fixture, results) ==
  IF ~settled.threw
  THEN [results |-> Append(results, settled.value[1]), pc |-> "loop"]
  ELSE IF ~continueOnError
       THEN [results |-> results, pc |-> "thrown"]
       ELSE [results |-> Append(results,
                                EvaluateFixtureCatch(fixture, settled.message)),
             pc |-> "loop"]

\* Mutant of LoopBody: a failed result also ends the loop when
\* continueOnError is false.
LoopBody_BreakUnlessContinue(settled, fixture, results) ==
  IF ~settled.threw
  THEN LET result == settled.value[1]
       IN  [results |-> Append(results, result),
            pc |-> IF ~result.passed /\ (stopOnError \/ ~continueOnError)
                   THEN "stats" ELSE "loop"]
  ELSE IF ~continueOnError
       THEN [results |-> results, pc |-> "thrown"]
       ELSE [results |-> Append(results,
                                EvaluateFixtureCatch(fixture, settled.message)),
             pc |-> IF stopOnError THEN "stats" ELSE "loop"]

\* The body of the for loop after evaluateFixture has settled: settled is
\* Returned(result) or Threw(message).  Gives the new fixtureResults and
\* where the loop goes: "loop" (next fixture), "stats" (break) or "thrown"
\* (the exception leaves runEvaluation).
LoopBody(settled, fixture, results) ==
  IF ~settled.threw
  THEN LET result == settled.value[1]
       IN  [results |-> Append(results, result),
            pc |-> IF ~result.passed /\ stopOnError THEN "stats" ELSE "loop"]
  ELSE IF ~continueOnError
       THEN [results |-> results, pc |-> "thrown"]
       ELSE [results |-> Append(results,
                                EvaluateFixtureCatch(fixture, settled.message)),
             pc |-> IF stopOnError THEN "stats" ELSE "loop"]

\* Mutant of RunResultOf: totalFixtures taken from the input length.
RunResultOf_InputLength(results) ==
  LET totalFixtures == Len(fixtures)
      passedFixtures == Cardinality({k \in 1..Len(results) : results[k].passed})
  IN  [fixtureResults |-> results,
       totalFixtures |-> totalFixtures,
       passedFixtures |-> passedFixtures,
       failedFixtures |-> totalFixtures - passedFixtures,
       passRate |-> IF totalFixtures > 0
                    THEN [num |-> passedFixtures, den |-> totalFixtures]
                    ELSE [num |-> 0, den |-> 1],
       totalTokens |-> None,
       averageLatency |-> None,
       totalLatency |-> None]

\* Mutant of RunResultOf: only fixtures with a fixture-level error count
\* as failed.
RunResultOf_FailedAsErrored(results) ==
  LET totalFixtures == Len(results)
      passedFixtures == Cardinality({k \in 1..Len(results) : results[k].passed})
  IN  [fixtureResults |-> results,
       totalFixtures |-> totalFixtures,
       passedFixtures |-> passedFixtures,
       failedFixtures |-> Cardinality({k \in 1..Len(results) : IsSome(results[k].error)}),
       passRate |-> IF totalFixtures > 0
                    THEN [num |-> passedFixtures, den |-> totalFixtures]
                    ELSE [num |-> 0, den |-> 1],
       totalTokens |-> None,
       averageLatency |-> None,
       totalLatency |-> None]

\* The statistics and the RunResult built after the loop.
RunResultOf(results) ==
  LET totalFixtures == Len(results)
      passedFixtures == Cardinality({k \in 1..Len(results) : results[k].passed})
  IN  [fixtureResults |-> results,
       totalFixtures |-> totalFixtures,
       passedFixtures |-> passedFixtures,
       failedFixtures |-> totalFixtures - passedFixtures,
       passRate |-> IF totalFixtures > 0
                    THEN [num |-> passedFixtures, den |-> totalFixtures]
                    ELSE [num |-> 0, den |-> 1],
       totalTokens |-> None,
       averageLatency |-> None,
       totalLatency |-> None]

\* Mutant of ShouldSave: `if (options.saveResults)`, so that an undefined
\* option does not save.
ShouldSave_Truthy(option) == option = Some(TRUE)

\* options.saveResults !== false
ShouldSave(option) == option # Some(FALSE)

\* runEvaluationFromFile: read the file; any error rejects before
\* runEvaluation is called.
ReadFile ==
  /\ pc = "read"
  /\ LET readResult == readJsonlFile(fileLines)
     IN  IF Len(readResult.errors) > 0
         THEN /\ pc' = "thrown"
              /\ UNCHANGED fixtures
         ELSE /\ pc' = "loop"
              /\ fixtures' = readResult.fixtures
  /\ UNCHANGED <<entry, fileLines, stopOnError, continueOnError, saveOption,
                 i, inFlight, fixtureResults, evalLog, backendCalls,
                 backendReports, scoredLog, returned, saveCalls, diffVars,
                 jsonVars, expVars, aggVars, evalVars, renderVars>>

\* The loop takes up the next fixture and calls evaluateFixture, which runs
\* up to its await: either it has failed by then and returns the failure,
\* or provider.generate is called and the loop waits.
BeginFixture ==
  /\ pc = "loop"
  /\ AwaitSettled(inFlight)
  /\ i < Len(fixtures)
  /\ LET k == i + 1
         fixture == fixtures[k]
         rendered == EvaluateFixtureRender(fixture)
     IN  /\ i' = k
         /\ evalLog' = Append(evalLog, k)
         /\ IF rendered.threw
            THEN LET after == LoopBody(
                                Returned(EvaluateFixtureCatch(fixture,
                                                              rendered.message)),
                                fixture, fixtureResults)
                 IN  /\ fixtureResults' = after.results
                     /\ pc' = after.pc
                     /\ UNCHANGED <<inFlight, backendCalls>>
            ELSE /\ inFlight' = inFlight \cup
                                  {[index |-> k, prompt |-> rendered.value[1]]}
                 /\ backendCalls' = Append(backendCalls, k)
                 /\ UNCHANGED <<fixtureResults, pc>>
  /\ UNCHANGED <<entry, fileLines, fixtures, stopOnError, continueOnError,
                 saveOption, backendReports, scoredLog, returned, saveCalls,
                 diffVars, jsonVars, expVars, aggVars, evalVars, renderVars>>

\* A provider.generate call resolves: evaluateFixture scores the output and
\* returns, and the loop body records the result.
GenerateResolves ==
  \E call \in inFlight, outcome \in {o \in BackendOutcomes : ~o.threw} :
    LET fixture == fixtures[call.index]
        providerResult == outcome.value[1]
        after == LoopBody(
                   Returned(EvaluateFixtureScore(fixture, call.prompt,
                                                 providerResult)),
                   fixture, fixtureResults)
    IN  /\ pc = "loop"
        /\ inFlight' = inFlight \ {call}
        /\ backendReports' = Append(backendReports,
                                    [index |-> call.index,
                                     outcome |-> outcome])
        /\ scoredLog' = Append(scoredLog, call.index)
        /\ fixtureResults' = after.results
        /\ pc' = after.pc
        /\ UNCHANGED <<entry, fileLines, fixtures, stopOnError,
                       continueOnError, saveOption, i, evalLog, backendCalls,
                       returned, saveCalls, diffVars,
                 jsonVars, expVars, aggVars, evalVars, renderVars>>

\* A provider.generate call rejects: evaluateFixture's catch block returns
\* the failure, and the loop body records it.
GenerateRejects ==
  \E call \in inFlight, outcome \in {o \in BackendOutcomes : o.threw} :
    LET fixture == fixtures[call.index]
        after == LoopBody(
                   Returned(EvaluateFixtureCatch(fixture, outcome.message)),
                   fixture, fixtureResults)
    IN  /\ pc = "loop"
        /\ inFlight' = inFlight \ {call}
        /\ backendReports' = Append(backendReports,
                                    [index |-> call.index,
                                     outcome |-> outcome])
        /\ fixtureResults' = after.results
        /\ pc' = after.pc
        /\ UNCHANGED <<entry, fileLines, fixtures, stopOnError,
                       continueOnError, saveOption, i, evalLog, backendCalls,
                       scoredLog, returned, saveCalls, diffVars,
                 jsonVars, expVars, aggVars, evalVars, renderVars>>

\* The loop is over (exhausted or left by break): compute the statistics,
\* save the result unless options.saveResults is false, return it.
Finish ==
  /\ \/ pc = "stats"
     \/ pc = "loop" /\ inFlight = {} /\ i = Len(fixtures)
  /\ LET result == RunResultOf(fixtureResults)
     IN  /\ saveCalls' = IF ShouldSave(saveOption)
                         THEN Append(saveCalls, result) ELSE saveCalls
         /\ returned' = Some(result)
  /\ pc' = "done"
  /\ UNCHANGED <<entry, fileLines, fixtures, stopOnError, continueOnError,
                 saveOption, i, inFlight, fixtureResults, evalLog,
                 backendCalls, backendReports, scoredLog, diffVars,
                 jsonVars, expVars, aggVars, evalVars, renderVars>>

IdleDiff ==
  /\ oldText = <<>>
  /\ newText = <<>>
  /\ forward = None
  /\ backward = None

IdleJson ==
  /\ jsonOld = JUndefined
  /\ jsonNew = JUndefined
  /\ jsonDiff = None

IdleExpect ==
  /\ expOutput = <<>>
  /\ expExpectation = MaxWordsExp(0)
  /\ expResult = None

IdleAggregate ==
  /\ runFiles = <<>>
  /\ aggCall = [fn |-> "", promptName |-> "", count |-> 0]
  /\ aggregated = None

IdleRender ==
  /\ renderCall = [fn |-> "", template |-> <<>>, variables |-> <<>>, options |-> RenderOptions(None, None)]
  /\ renderOutcome = None

IdleEval ==
  /\ clock = 0
  /\ jsonlFiles = 0
  /\ noSave = FALSE
  /\ fileIndex = 0
  /\ evalPc = "idle"
  /\ runsDir = {}
  /\ savedLog = <<>>

Init ==
  /\ entry \in {"direct", "file"}
  /\ IF entry = "direct"
     THEN /\ fixtures \in SeqsUpTo(FixturePool, MaxFixtures)
          /\ fileLines = <<>>
          /\ pc = "loop"
     ELSE /\ fixtures = <<>>
          /\ fileLines \in SeqsUpTo(LinePool, MaxFileLines)
          /\ pc = "read"
  /\ stopOnError \in BOOLEAN
  /\ continueOnError \in BOOLEAN
  /\ saveOption \in {None, Some(TRUE), Some(FALSE)}
  /\ i = 0
  /\ inFlight = {}
  /\ fixtureResults = <<>>
  /\ evalLog = <<>>
  /\ backendCalls = <<>>
  /\ backendReports = <<>>
  /\ scoredLog = <<>>
  /\ returned = None
  /\ saveCalls = <<>>
  /\ IdleDiff
  /\ IdleJson
  /\ IdleExpect
  /\ IdleAggregate
  /\ IdleEval
  /\ IdleRender

Next ==
  \/ ReadFile
  \/ BeginFixture
  \/ GenerateResolves
  \/ GenerateRejects
  \/ Finish

Spec == Init /\ [][Next]_vars

\* ------------------------------------------------------- diffText, applied

DiffForward ==
  /\ entry = "diff"
  /\ forward = None
  /\ forward' = Some(diffText(oldText, newText))
  /\ UNCHANGED <<entry, runnerVars, oldText, newText, backward, jsonVars, expVars, aggVars, evalVars, renderVars>>

DiffBackward ==
  /\ entry = "diff"
  /\ backward = None
  /\ backward' = Some(diffText(newText, oldText))
  /\ UNCHANGED <<entry, runnerVars, oldText, newText, forward, jsonVars, expVars, aggVars, evalVars, renderVars>>

IdleRunner ==
  /\ fileLines = <<>>
  /\ fixtures = <<>>
  /\ stopOnError = FALSE
  /\ continueOnError = TRUE
  /\ saveOption = None
  /\ pc = "idle"
  /\ i = 0
  /\ inFlight = {}
  /\ fixtureResults = <<>>
  /\ evalLog = <<>>
  /\ backendCalls = <<>>
  /\ backendReports = <<>>
  /\ scoredLog = <<>>
  /\ returned = None
  /\ saveCalls = <<>>

InitDiff ==
  /\ entry = "diff"
  /\ oldText \in Texts
  /\ newText \in Texts
  /\ forward = None
  /\ backward = None
  /\ IdleRunner
  /\ IdleJson
  /\ IdleExpect
  /\ IdleAggregate
  /\ IdleEval
  /\ IdleRender

NextDiff ==
  \/ DiffForward
  \/ DiffBackward

SpecDiff == InitDiff /\ [][NextDiff]_vars

\* ------------------------------------------------------- diffJson, applied

CallDiffJson ==
  /\ entry = "json"
  /\ jsonDiff = None
  /\ jsonDiff' = Some(diffJson(jsonOld, jsonNew, <<>>))
  /\ UNCHANGED <<entry, runnerVars, diffVars, jsonOld, jsonNew, expVars, aggVars, evalVars, renderVars>>

InitJson ==
  /\ entry = "json"
  /\ jsonOld \in JsonValues
  /\ jsonNew \in JsonValues
  /\ jsonDiff = None
  /\ IdleRunner
  /\ IdleDiff
  /\ IdleExpect
  /\ IdleAggregate
  /\ IdleEval
  /\ IdleRender

NextJson == CallDiffJson

SpecJson == InitJson /\ [][NextJson]_vars

\* --------------------------------------------- evaluateExpectation, applied

CallEvaluateExpectation ==
  /\ entry = "expect"
  /\ expResult = None
  /\ expResult' = Some(evaluateExpectation(expOutput, expExpectation))
  /\ UNCHANGED <<entry, runnerVars, diffVars, jsonVars, expOutput, expExpectation, aggVars, evalVars, renderVars>>

InitExpect ==
  /\ entry = "expect"
  /\ expOutput \in Outputs
  /\ expExpectation \in ExpectationPool
  /\ expResult = None
  /\ IdleRunner
  /\ IdleDiff
  /\ IdleJson
  /\ IdleAggregate
  /\ IdleEval
  /\ IdleRender

NextExpect == CallEvaluateExpectation

SpecExpect == InitExpect /\ [][NextExpect]_vars

\* ---------------------------------------------------- aggregation, applied

\* The fixture results of saved runs: a passed one, one that failed with a
\* fixture-level error, and one that failed an expectation.
SavedFixtureResults ==
  { EvaluateFixtureScore(FxNoExpectations, EvaluateFixtureRender(FxNoExpectations).value[1],
                         [output |-> OutputOk, latency |-> 80, tokens |-> None]),
    EvaluateFixtureCatch(FxNoPrompt, "Prompt not found"),
    EvaluateFixtureScore(FxMixed, EvaluateFixtureRender(FxMixed).value[1],
                         [output |-> OutputHiBob, latency |-> 120, tokens |-> None]) }

\* The run the runner returns and saves, with the time fields of the
\* returned object: startedAt (a clock reading) and duration.
SavedRun(results, startedAt, duration) ==
  RunResultOf(results) @@ [startedAt |-> startedAt, duration |-> duration]

\* The saved runs: of no, one or two fixtures, started at one of two times.
SavedRuns ==
  {SavedRun(results, at, 1500 - 500 * at) :
     results \in {<<>>} \cup {<<x>> : x \in SavedFixtureResults}
                       \cup {<<x, y>> : x \in SavedFixtureResults, y \in SavedFixtureResults},
     at \in {1, 2}}

\* What the runs directory may hold.
ResultFiles == {InvalidResultFile} \cup {ResultFile(run) : run \in SavedRuns}

\* The calls of the aggregation functions.
AggregateCalls ==
  {[fn |-> "aggregateResults", promptName |-> "", count |-> 0],
   [fn |-> "aggregateRuns", promptName |-> "", count |-> 0]}
    \cup {[fn |-> "aggregatePromptResults", promptName |-> name, count |-> 0] :
            name \in {"greet", "nonexistent", "v1"}}
    \cup {[fn |-> "aggregateRecentRuns", promptName |-> "", count |-> n] :
            n \in {1, 2}}

\* The runs loadResults returns for the files it accepts.
LoadedRuns(files) ==
  LET valid == SelectSeq(files, LAMBDA f : f.valid)
  IN  [k \in 1..Len(valid) |-> valid[k].run[1]]

CallAggregateResults ==
  /\ entry = "aggregate"
  /\ aggCall.fn = "aggregateResults"
  /\ aggregated = None
  /\ aggregated' = Some(aggregateResults(LoadedRuns(runFiles)))
  /\ UNCHANGED <<entry, runnerVars, diffVars, jsonVars, expVars, runFiles, aggCall, evalVars, renderVars>>

CallAggregateRuns ==
  /\ entry = "aggregate"
  /\ aggCall.fn = "aggregateRuns"
  /\ aggregated = None
  /\ aggregated' = Some(aggregateRuns(runFiles, None, None))
  /\ UNCHANGED <<entry, runnerVars, diffVars, jsonVars, expVars, runFiles, aggCall, evalVars, renderVars>>

CallAggregatePromptResults ==
  /\ entry = "aggregate"
  /\ aggCall.fn = "aggregatePromptResults"
  /\ aggregated = None
  /\ aggregated' = Some(aggregatePromptResults(runFiles, aggCall.promptName))
  /\ UNCHANGED <<entry, runnerVars, diffVars, jsonVars, expVars, runFiles, aggCall, evalVars, renderVars>>

CallAggregateRecentRuns ==
  /\ entry = "aggregate"
  /\ aggCall.fn = "aggregateRecentRuns"
  /\ aggregated = None
  /\ aggregated' = Some(aggregateRecentRuns(runFiles, aggCall.count))
  /\ UNCHANGED <<entry, runnerVars, diffVars, jsonVars, expVars, runFiles, aggCall, evalVars, renderVars>>

InitAggregate ==
  /\ entry = "aggregate"
  /\ runFiles \in SeqsUpTo(ResultFiles, MaxResultFiles)
  /\ aggCall \in AggregateCalls
  /\ aggregated = None
  /\ IdleRunner
  /\ IdleDiff
  /\ IdleJson
  /\ IdleExpect
  /\ IdleEval
  /\ IdleRender

NextAggregate ==
  \/ CallAggregateResults
  \/ CallAggregateRuns
  \/ CallAggregatePromptResults
  \/ CallAggregateRecentRuns

SpecAggregate == InitAggregate /\ [][NextAggregate]_vars

\* -------------------------------------------------- eval over all files

\* generateResultsFilename at time now: the prefix and the ISO timestamp
\* cut after the seconds (slice(0, -5) drops ".mmmZ").
generateResultsFilename(now) == [prefix |-> "eval", second |-> now \div 1000]

\* saveResults without a filename argument: writeFileSync creates the file
\* or replaces its content.  The result is the directory afterwards.
saveResults(dir, results, now) ==
  LET resultsFilename == generateResultsFilename(now)
  IN  {f \in dir : f.filename # resultsFilename}
        \cup {[filename |-> resultsFilename, run |-> results]}

\* Time passes.
Tick ==
  /\ entry = "eval"
  /\ evalPc \in {"next", "running"}
  /\ \E d \in {300, 800} :
       /\ clock + d <= MaxClock
       /\ clock' = clock + d
  /\ UNCHANGED <<entry, runnerVars, diffVars, jsonVars, expVars, aggVars, renderVars, jsonlFiles, noSave, fileIndex, evalPc, runsDir, savedLog>>

\* evaluateAllFiles finds no JSONL file and reports the error.
ReportNoFiles ==
  /\ entry = "eval"
  /\ evalPc = "discover"
  /\ jsonlFiles = 0
  /\ evalPc' = "error"
  /\ UNCHANGED <<entry, runnerVars, diffVars, jsonVars, expVars, aggVars, renderVars, clock, jsonlFiles, noSave, fileIndex, runsDir, savedLog>>

\* evaluateAllFiles creates the provider and enters the loop.
EnterLoop ==
  /\ entry = "eval"
  /\ evalPc = "discover"
  /\ jsonlFiles > 0
  /\ evalPc' = "next"
  /\ UNCHANGED <<entry, runnerVars, diffVars, jsonVars, expVars, aggVars, renderVars, clock, jsonlFiles, noSave, fileIndex, runsDir, savedLog>>

\* The loop takes up the next JSONL file and awaits runEvaluationFromFile.
EvaluateNextFile ==
  /\ entry = "eval"
  /\ evalPc = "next"
  /\ fileIndex < jsonlFiles
  /\ fileIndex' = fileIndex + 1
  /\ evalPc' = "running"
  /\ UNCHANGED <<entry, runnerVars, diffVars, jsonVars, expVars, aggVars, renderVars, clock, jsonlFiles, noSave, runsDir, savedLog>>

\* runEvaluationFromFile rejects (the file has an invalid line): nothing
\* catches it in evaluateAllFiles.
FileRejected ==
  /\ entry = "eval"
  /\ evalPc = "running"
  /\ evalPc' = "thrown"
  /\ UNCHANGED <<entry, runnerVars, diffVars, jsonVars, expVars, aggVars, renderVars, clock, jsonlFiles, noSave, fileIndex, runsDir, savedLog>>

\* runEvaluationFromFile resolves: runEvaluation has built the run of this
\* file and, unless saveResults is false, saved it under a generated name.
FileEvaluated ==
  /\ entry = "eval"
  /\ evalPc = "running"
  /\ LET run == [file |-> fileIndex, completedAt |-> clock]
     IN  IF ShouldSave(Some(~noSave))
         THEN /\ runsDir' = saveResults(runsDir, run, clock)
              /\ savedLog' = Append(savedLog,
                                    [run |-> run,
                                     filename |-> generateResultsFilename(clock)])
         ELSE UNCHANGED <<runsDir, savedLog>>
  /\ evalPc' = "next"
  /\ UNCHANGED <<entry, runnerVars, diffVars, jsonVars, expVars, aggVars, renderVars, clock, jsonlFiles, noSave, fileIndex>>

\* The loop is over.
AllFilesDone ==
  /\ entry = "eval"
  /\ evalPc = "next"
  /\ fileIndex = jsonlFiles
  /\ evalPc' = "done"
  /\ UNCHANGED <<entry, runnerVars, diffVars, jsonVars, expVars, aggVars, renderVars, clock, jsonlFiles, noSave, fileIndex, runsDir, savedLog>>

\* An eval invocation starts at some time, over a runs directory that may
\* hold the run an earlier invocation saved.
InitEval ==
  /\ entry = "eval"
  /\ clock \in {0, 300, 800}
  /\ jsonlFiles \in 0..MaxJsonlFiles
  /\ noSave \in BOOLEAN
  /\ fileIndex = 0
  /\ evalPc = "discover"
  /\ \E earlier \in {<<>>, <<[file |-> 0, completedAt |-> 0]>>} :
       /\ savedLog = [k \in 1..Len(earlier) |-> [run |-> earlier[k], filename |-> generateResultsFilename(earlier[k].completedAt)]]
       /\ runsDir = {[filename |-> savedLog[k].filename, run |-> savedLog[k].run] : k \in 1..Len(earlier)}
  /\ IdleRunner
  /\ IdleDiff
  /\ IdleJson
  /\ IdleExpect
  /\ IdleAggregate
  /\ IdleRender

NextEval ==
  \/ Tick
  \/ ReportNoFiles
  \/ EnterLoop
  \/ EvaluateNextFile
  \/ FileRejected
  \/ FileEvaluated
  \/ AllFilesDone

SpecEval == InitEval /\ [][NextEval]_vars

\* ------------------------------------------------- the renderer, applied

\* The pieces templates are made of.
TemplatePieces == {Lit("Hi "), Var("a"), Var("b"), Var("hasOwnProperty")}

Templates == SeqsUpTo(TemplatePieces, MaxTemplatePieces)

\* Variable maps: any of the three names, each with a string or null.
VariableMaps ==
  UNION {[names -> {TextValue("A"), NullValue}] : names \in SUBSET {"a", "b", "hasOwnProperty"}}

\* The options a caller passes: each one given or left out.
RenderOptionsPool ==
  {RenderOptions(strategy, placeholder) : strategy \in {None, Some("error"), Some("warn"), Some("ignore"), Some("empty")}, placeholder \in {None, Some("?")}}

CallRenderTemplate ==
  /\ entry = "render"
  /\ renderCall.fn = "renderTemplate"
  /\ renderOutcome = None
  /\ renderOutcome' = Some(renderTemplateWithOptions(renderCall.template, renderCall.variables, renderCall.options))
  /\ UNCHANGED <<entry, runnerVars, diffVars, jsonVars, expVars, aggVars, evalVars, renderCall>>

CallRenderTemplateWithMetadata ==
  /\ entry = "render"
  /\ renderCall.fn = "renderTemplateWithMetadata"
  /\ renderOutcome = None
  /\ renderOutcome' = Some(renderTemplateWithMetadata(renderCall.template, renderCall.variables, renderCall.options))
  /\ UNCHANGED <<entry, runnerVars, diffVars, jsonVars, expVars, aggVars, evalVars, renderCall>>

InitRender ==
  /\ entry = "render"
  /\ renderCall \in [fn : {"renderTemplate", "renderTemplateWithMetadata"}, template : Templates, variables : VariableMaps, options : RenderOptionsPool]
  /\ renderOutcome = None
  /\ IdleRunner
  /\ IdleDiff
  /\ IdleJson
  /\ IdleExpect
  /\ IdleAggregate
  /\ IdleEval

NextRender ==
  \/ CallRenderTemplate
  \/ CallRenderTemplateWithMetadata

SpecRender == InitRender /\ [][NextRender]_vars

\* ================================================================== claims

InLog(log, k) == \E n \in 1..Len(log) : log[n] = k

\* The generate call for fixture k has settled by rejecting.
BackendFailedFor(k) ==
  \E n \in 1..Len(backendReports) :
    backendReports[n].index = k /\ backendReports[n].outcome.threw

\* C1: when resolving the prompt reference, rendering the template or the
\* backend call fails for a fixture, its FixtureResult has passed = false,
\* an error and no expectation results; the backend is not called after a
\* resolution or render failure, no expectation is evaluated after any of
\* the three failures, and the failure is returned: every fixture whose
\* evaluation has ended has a result, and nothing is thrown once a fixture
\* has been taken up.
C1_FailureShortCircuits ==
  /\ \A k \in 1..Len(fixtureResults) :
       LET r == fixtureResults[k]
           failedEarly == EvaluateFixtureRender(fixtures[k]).threw
       IN  (failedEarly \/ BackendFailedFor(k)) =>
             /\ r.fixture = fixtures[k]
             /\ ~r.passed
             /\ IsSome(r.error)
             /\ r.expectationResults = <<>>
             /\ failedEarly => ~InLog(backendCalls, k)
             /\ ~InLog(scoredLog, k)
  /\ Len(fixtureResults) + Cardinality(inFlight) = Len(evalLog)
  /\ pc = "thrown" => evalLog = <<>>

\* C1 witness: a finished run in which one fixture failed at resolution,
\* one at rendering and one at the backend call.
C1_Witness ==
  /\ pc = "done"
  /\ \E a, b, c \in 1..Len(fixtureResults) :
       /\ loadPromptVersion(fixtures[a].prompt).threw
       /\ ~loadPromptVersion(fixtures[b].prompt).threw
       /\ EvaluateFixtureRender(fixtures[b]).threw
       /\ BackendFailedFor(c)

\* C2: with stopOnError no fixture is started after the first one whose
\* result is not passed: the results are those of a prefix of the input,
\* only the last may be failed, evaluateFixture and the backend are called
\* only for fixtures all of whose predecessors passed, and a finished run
\* whose last result passed has covered the whole input.
C2_StopOnError ==
  stopOnError =>
    /\ Len(fixtureResults) <= Len(fixtures)
    /\ \A k \in 1..Len(fixtureResults) :
         /\ fixtureResults[k].fixture = fixtures[k]
         /\ k < Len(fixtureResults) => fixtureResults[k].passed
    /\ \A n \in 1..Len(evalLog) :
         \A k \in 1..(evalLog[n] - 1) :
           k <= Len(fixtureResults) /\ fixtureResults[k].passed
    /\ \A n \in 1..Len(backendCalls) :
         \A k \in 1..(backendCalls[n] - 1) :
           k <= Len(fixtureResults) /\ fixtureResults[k].passed
    /\ (pc = "done" /\ \A k \in 1..Len(fixtureResults) : fixtureResults[k].passed)
         => Len(fixtureResults) = Len(fixtures)

\* C2 witness: a finished stopOnError run that passed a fixture, failed the
\* next one and left a later one untouched.
C2_Witness ==
  /\ stopOnError
  /\ pc = "done"
  /\ Len(fixtureResults) = 2
  /\ Len(fixtures) = 3
  /\ fixtureResults[1].passed
  /\ ~fixtureResults[2].passed
  /\ ~EvaluateFixtureRender(fixtures[3]).threw

\* C3: a FixtureResult is passed exactly when it records no error and all
\* its expectation results are passed (so a fixture without expectations
\* that did not error is passed).
C3_PassedIff ==
  \A k \in 1..Len(fixtureResults) :
    LET r == fixtureResults[k]
    IN  r.passed <=>
          /\ r.error = None
          /\ \A e \in 1..Len(r.expectationResults) :
               r.expectationResults[e].passed

\* C3 witness: a run with a passed fixture without expectations, a failed
\* fixture without error whose expectations partly passed, and a passed
\* fixture with expectations.
C3_Witness ==
  \E a, b, c \in 1..Len(fixtureResults) :
    /\ fixtureResults[a].passed
    /\ fixtureResults[a].expectationResults = <<>>
    /\ fixtureResults[b].error = None
    /\ \E e, g \in 1..Len(fixtureResults[b].expectationResults) :
         /\ fixtureResults[b].expectationResults[e].passed
         /\ ~fixtureResults[b].expectationResults[g].passed
    /\ fixtureResults[c].passed
    /\ fixtureResults[c].expectationResults # <<>>

C5_Counters ==
  IsSome(returned) =>
    LET r == returned[1]
        passedCount == Cardinality({k \in 1..Len(fixtureResults) :
                                      fixtureResults[k].passed})
    IN  /\ r.fixtureResults = fixtureResults
        /\ r.totalFixtures = Len(fixtureResults)
        /\ r.passedFixtures = passedCount
        /\ r.failedFixtures = Len(fixtureResults) - passedCount
        /\ r.passRate.den > 0
        /\ IF Len(fixtureResults) = 0
           THEN r.passRate.num = 0
           ELSE r.passRate.num * Len(fixtureResults)
                  = passedCount * r.passRate.den

\* C5 witness: a returned RunResult of a run that stopOnError cut short,
\* with a passed and a failed fixture: the counters differ from the input
\* length.
C5_Witness ==
  /\ IsSome(returned)
  /\ returned[1].totalFixtures = 2
  /\ returned[1].passedFixtures = 1
  /\ Len(fixtures) = 3

\* The results, in order, of the fixtures that carry a latency.
WithLatency(results) == SelectSeq(results, LAMBDA r : IsSome(r.latency))

\* The results, in order, of the fixtures that carry token counts.
WithTokens(results) == SelectSeq(results, LAMBDA r : IsSome(r.tokens))

RECURSIVE SumSeq(_)
SumSeq(numbers) ==
  IF numbers = <<>> THEN 0 ELSE Head(numbers) + SumSeq(Tail(numbers))

SumOver(seq, Field(_)) == SumSeq([k \in 1..Len(seq) |-> Field(seq[k])])

\* C6: each FixtureResult whose backend call succeeded carries the latency
\* and the token counts the backend reported for that call, and a returned
\* RunResult carries totalLatency, averageLatency and totalTokens computed
\* over exactly the results that carry them.
C6_LatencyAndTokens ==
  /\ \A n \in 1..Len(backendReports) :
       LET report == backendReports[n]
       IN  (~report.outcome.threw /\ report.index <= Len(fixtureResults)
            /\ IsSome(fixtureResults[report.index].output)) =>
             /\ fixtureResults[report.index].latency
                  = Some(report.outcome.value[1].latency)
             /\ fixtureResults[report.index].tokens
                  = report.outcome.value[1].tokens
  /\ IsSome(returned) =>
       LET timed == WithLatency(fixtureResults)
           counted == WithTokens(fixtureResults)
           total == SumOver(timed, LAMBDA r : r.latency[1])
       IN  /\ timed # <<>> =>
                /\ returned[1].totalLatency = Some(total)
                /\ returned[1].averageLatency
                     = Some([num |-> total, den |-> Len(timed)])
           /\ counted # <<>> =>
                returned[1].totalTokens
                  = Some([input |-> SumOver(counted, LAMBDA r : r.tokens[1].input),
                          output |-> SumOver(counted, LAMBDA r : r.tokens[1].output),
                          total |-> SumOver(counted, LAMBDA r : r.tokens[1].total)])

\* C7: at most one provider.generate call is in flight at any time, and the
\* call for fixture k is in flight only when the results of the fixtures
\* 1..k-1 have been recorded; the calls are made in input order.
C7_OneInFlight ==
  /\ Cardinality(inFlight) <= 1
  /\ \A call \in inFlight : Len(fixtureResults) = call.index - 1
  /\ \A n, m \in 1..Len(backendCalls) :
       n < m => backendCalls[n] < backendCalls[m]

\* C7 witness: the generate call of the third fixture is in flight after
\* the call of an earlier fixture has settled.
C7_Witness ==
  /\ \E call \in inFlight : call.index = 3
  /\ Len(backendReports) > 0

\* C8: saveResults is invoked at most once; unless options.saveResults is
\* false it is invoked exactly when the run is done, with the RunResult
\* that is returned, after the last fixture has been processed; with
\* options.saveResults false it is never invoked.
C8_SaveOnce ==
  /\ Len(saveCalls) <= 1
  /\ saveOption = Some(FALSE) => saveCalls = <<>>
  /\ saveOption # Some(FALSE) => (pc = "done" <=> Len(saveCalls) = 1)
  /\ saveCalls # <<>> =>
       /\ returned = Some(saveCalls[1])
       /\ saveCalls[1].fixtureResults = fixtureResults
       /\ inFlight = {}
       /\ \/ Len(fixtureResults) = Len(fixtures)
          \/ /\ stopOnError
             /\ fixtureResults # <<>>
             /\ ~fixtureResults[Len(fixtureResults)].passed

\* C8 witness: a finished run of several fixtures with options.saveResults
\* left undefined and the one save made.
C8_Witness ==
  /\ pc = "done"
  /\ saveOption = None
  /\ Len(saveCalls) = 1
  /\ Len(saveCalls[1].fixtureResults) >= 2

\* Some non-blank line of the file is not valid JSON or fails validation.
HasInvalidLine(lines) ==
  \E k \in 1..Len(lines) :
    /\ lines[k].kind # "blank"
    /\ \/ lines[k].kind # "json"
       \/ validateFixture(lines[k].object[1]) # {}

\* C9: when some non-blank line of the JSONL file is not valid JSON or
\* fails fixture validation, runEvaluationFromFile rejects before anything
\* is evaluated: no fixture reaches the runner, nothing is rendered, the
\* backend is not called and nothing is saved.
C9_RejectsBeforeEvaluating ==
  (entry = "file" /\ HasInvalidLine(fileLines)) =>
    /\ pc \in {"read", "thrown"}
    /\ fixtures = <<>>
    /\ evalLog = <<>>
    /\ backendCalls = <<>>
    /\ fixtureResults = <<>>
    /\ saveCalls = <<>>
    /\ returned = None

\* C9 witness: runEvaluationFromFile has rejected a file that holds a
\* valid fixture line next to an invalid line.
C9_Witness ==
  /\ entry = "file"
  /\ pc = "thrown"
  /\ \E k \in 1..Len(fileLines) :
       fileLines[k].kind = "json" /\ validateFixture(fileLines[k].object[1]) = {}
  /\ \E k \in 1..Len(fileLines) :
       fileLines[k].kind = "json" /\ validateFixture(fileLines[k].object[1]) # {}

\* C10: for all texts a and b, diffText(a, b).addedCount equals
\* diffText(b, a).removedCount and diffText(a, b).removedCount equals
\* diffText(b, a).addedCount.
C10_CountSymmetry ==
  (IsSome(forward) /\ IsSome(backward)) =>
    /\ forward[1].addedCount = backward[1].removedCount
    /\ forward[1].removedCount = backward[1].addedCount

\* The length of a longest common subsequence of two sequences.
RECURSIVE LcsLength(_, _)
LcsLength(a, b) ==
  IF a = <<>> \/ b = <<>> THEN 0
  ELSE IF Head(a) = Head(b) THEN 1 + LcsLength(Tail(a), Tail(b))
       ELSE LET skipA == LcsLength(Tail(a), b)
                skipB == LcsLength(a, Tail(b))
            IN  IF skipA >= skipB THEN skipA ELSE skipB

\* C11: for all texts, the unchanged entries of diffText's result form a
\* longest common subsequence of the old and the new lines: unchangedCount
\* is the LCS length, and addedCount + removedCount is the least number of
\* line insertions and deletions, Len(old) + Len(new) - 2 * LCS.
C11_LcsAligned ==
  IsSome(forward) =>
    LET oldLines == SplitLines(oldText)
        newLines == SplitLines(newText)
        lcs == LcsLength(oldLines, newLines)
    IN  /\ forward[1].unchangedCount = lcs
        /\ forward[1].addedCount + forward[1].removedCount
             = Len(oldLines) + Len(newLines) - 2 * lcs

\* The new lines are the old lines with line k replaced by a different line.
ReplacedAt(oldLines, newLines, k) ==
  /\ Len(newLines) = Len(oldLines)
  /\ k \in 1..Len(oldLines)
  /\ newLines[k] # oldLines[k]
  /\ \A n \in 1..Len(oldLines) : n # k => newLines[n] = oldLines[n]

\* C12: when the new text is the old text with one line replaced by a
\* different line, the diff is the unchanged lines before it, one removed
\* entry with the replaced line and its old position, right after it one
\* added entry with the new line, then the unchanged lines after it.
C12_ReplacedLine ==
  IsSome(forward) =>
    LET oldLines == SplitLines(oldText)
        newLines == SplitLines(newText)
        lines == forward[1].lines
    IN  \A k \in 1..Len(oldLines) :
          ReplacedAt(oldLines, newLines, k) =>
            /\ Len(lines) = Len(oldLines) + 1
            /\ lines[k] = [type |-> "removed", content |-> oldLines[k],
                           lineNumber |-> Some(k)]
            /\ lines[k + 1] = [type |-> "added", content |-> newLines[k],
                               lineNumber |-> None]
            /\ \A n \in 1..Len(lines) :
                 n \notin {k, k + 1} => lines[n].type = "unchanged"

\* b is a with at least one line appended at the end.
IsProperPrefix(a, b) ==
  /\ Len(a) < Len(b)
  /\ SubSeq(b, 1, Len(a)) = a

\* C13: if the new lines are the old lines with lines appended at the end,
\* the diff has no removed entry; if the new lines are the old lines with
\* lines dropped from the end, the diff has no added entry.
C13_AppendAndTruncate ==
  IsSome(forward) =>
    LET oldLines == SplitLines(oldText)
        newLines == SplitLines(newText)
        result == forward[1]
    IN  /\ IsProperPrefix(oldLines, newLines) =>
             /\ result.removedCount = 0
             /\ \A n \in 1..Len(result.lines) :
                  result.lines[n].type \in {"unchanged", "added"}
        /\ IsProperPrefix(newLines, oldLines) =>
             /\ result.addedCount = 0
             /\ \A n \in 1..Len(result.lines) :
                  result.lines[n].type \in {"unchanged", "removed"}

\* C13 witness: a diff of an append that keeps a line, and a diff of a
\* truncation that keeps a line, have both been computed.
C13_Witness ==
  /\ IsSome(forward)
  /\ IsSome(backward)
  /\ SplitLines(oldText) # <<>>
  /\ IsProperPrefix(SplitLines(oldText), SplitLines(newText))
  /\ forward[1].addedCount > 0
  /\ forward[1].unchangedCount > 0
  /\ backward[1].removedCount > 0

\* C14: in every diffText result an entry has a lineNumber exactly when it
\* is unchanged or removed, and that number is the 1-based position of the
\* entry's line in the old text: the numbered entries count 1, 2, ... and
\* carry the old lines of those positions.
C14_LineNumbers ==
  IsSome(forward) =>
    LET oldLines == SplitLines(oldText)
        lines == forward[1].lines
        numbered == SelectSeq(lines, LAMBDA e : e.type # "added")
    IN  /\ \A n \in 1..Len(lines) :
             IsSome(lines[n].lineNumber)
               <=> lines[n].type \in {"unchanged", "removed"}
        /\ Len(numbered) = Len(oldLines)
        /\ \A n \in 1..Len(numbered) :
             /\ numbered[n].lineNumber = Some(n)
             /\ numbered[n].content = oldLines[n]

\* C14 witness: a diff with an added entry in front of an unchanged one,
\* and a removed entry, has been computed.
C14_Witness ==
  /\ IsSome(forward)
  /\ forward[1].removedCount > 0
  /\ \E n \in 1..Len(forward[1].lines) :
       /\ forward[1].lines[n].type = "unchanged"
       /\ \E k \in 1..(n - 1) : forward[1].lines[k].type = "added"

\* C15: for every text x, the empty text included, diffText(x, x) has
\* hasChanges = false, addedCount = 0, removedCount = 0 and only unchanged
\* entries.
C15_SameText ==
  (IsSome(forward) /\ oldText = newText) =>
    /\ forward[1].hasChanges = FALSE
    /\ forward[1].addedCount = 0
    /\ forward[1].removedCount = 0
    /\ \A n \in 1..Len(forward[1].lines) :
         forward[1].lines[n].type = "unchanged"

\* C15 witness: a text of several lines has been compared with itself.
C15_Witness ==
  /\ IsSome(forward)
  /\ oldText = newText
  /\ Len(forward[1].lines) >= 2

\* A value the claims call absent: null or undefined.
Absent(value) == value.t \in {"null", "undefined"}

\* The segments of a dot-separated path.
RECURSIVE SplitPath(_, _)
SplitPath(path, cur) ==
  IF path = <<>> THEN <<cur>>
  ELSE IF Head(path) = "." THEN <<cur>> \o SplitPath(Tail(path), <<>>)
       ELSE SplitPath(Tail(path), Append(cur, Head(path)))

\* The value found by following the segments from value, if every segment
\* names a property (or index) that is there.
RECURSIVE Walk(_, _)
Walk(value, segments) ==
  IF segments = <<>> THEN Some(value)
  ELSE IF HasKey(value, Head(segments))
       THEN Walk(GetKey(value, Head(segments)), Tail(segments))
       ELSE None

\* The value at a path of a change list; "root" is the whole value, there
\* unless it is absent.
Locate(value, path) ==
  IF path = RootPath
  THEN (IF Absent(value) THEN None ELSE Some(value))
  ELSE Walk(value, SplitPath(path, <<>>))

\* value with the property at the segments set to newValue (put = TRUE) or
\* deleted (put = FALSE).  Array entries keep their index as key.
RECURSIVE Edit(_, _, _, _)
Edit(value, segments, put, newValue) ==
  LET key == Head(segments)
      rest == Tail(segments)
      others == SelectSeq(value.kids, LAMBDA e : e.key # key)
      changed(e) == IF e.key # key THEN e
                    ELSE [key |-> key,
                          value |-> IF rest = <<>> THEN newValue
                                    ELSE Edit(e.value, rest, put, newValue)]
  IN  IF value.t \notin {"object", "array"} THEN value
      ELSE IF rest = <<>> /\ ~put THEN [value EXCEPT !.kids = others]
      ELSE IF HasKey(value, key)
           THEN [value EXCEPT !.kids = [k \in 1..Len(value.kids) |->
                                          changed(value.kids[k])]]
           ELSE IF rest = <<>>
                THEN [value EXCEPT !.kids =
                        Append(value.kids, [key |-> key, value |-> newValue])]
                ELSE value

\* value after one change has been applied to it.
ApplyChange(value, change) ==
  IF change.path = RootPath
  THEN (IF change.type = "removed" THEN JUndefined ELSE change.newValue[1])
  ELSE IF change.type = "removed"
       THEN Edit(value, SplitPath(change.path, <<>>), FALSE, JUndefined)
       ELSE Edit(value, SplitPath(change.path, <<>>), TRUE, change.newValue[1])

RECURSIVE ApplyChanges(_, _)
ApplyChanges(value, changes) ==
  IF changes = <<>> THEN value
  ELSE ApplyChanges(ApplyChange(value, Head(changes)), Tail(changes))

\* Two values are the same JSON value: objects whatever the order of their
\* keys, arrays item by item; at the top level absent equals absent.
RECURSIVE SameJson(_, _)
SameJson(x, y) ==
  /\ x.t = y.t
  /\ x.v = y.v
  /\ Len(x.kids) = Len(y.kids)
  /\ IF x.t = "array"
     THEN \A k \in 1..Len(x.kids) : SameJson(x.kids[k].value, y.kids[k].value)
     ELSE \A k \in 1..Len(x.kids) :
            /\ HasKey(y, x.kids[k].key)
            /\ SameJson(x.kids[k].value, GetKey(y, x.kids[k].key))

\* C16: for all JSON-like values a and b, the changes of diffJson(a, b)
\* describe the transformation of a into b: the path of an added change is
\* there in b and not in a, the path of a removed change is there in a and
\* not in b, a modified change carries the values of a and of b at its
\* path, and a with all changes applied is b.
C16_ChangesTransform ==
  IsSome(jsonDiff) =>
    LET changes == jsonDiff[1].changes
        applied == ApplyChanges(jsonOld, changes)
    IN  /\ \A k \in 1..Len(changes) :
             LET c == changes[k]
                 inOld == Locate(jsonOld, c.path)
                 inNew == Locate(jsonNew, c.path)
             IN  CASE c.type = "added" -> IsSome(inNew) /\ ~IsSome(inOld)
                   [] c.type = "removed" -> IsSome(inOld) /\ ~IsSome(inNew)
                   [] OTHER -> inOld = c.oldValue /\ inNew = c.newValue
        /\ \/ SameJson(applied, jsonNew)
           \/ Absent(applied) /\ Absent(jsonNew)

\* The changes recorded at a path.
ChangesAt(changes, path) == SelectSeq(changes, LAMBDA c : c.path = path)

\* What the absent-value rule asks of the changes at one compared path.
AbsentRule(changes, path, old, new) ==
  LET here == ChangesAt(changes, path)
  IN  /\ (Absent(old) /\ ~Absent(new)) =>
           Len(here) = 1 /\ here[1].type = "added"
      /\ (~Absent(old) /\ Absent(new)) =>
           Len(here) = 1 /\ here[1].type = "removed"
      /\ (Absent(old) /\ Absent(new)) => here = <<>>

FlagsOf(expectation) ==
  IF IsSome(expectation.flags) THEN expectation.flags[1] ELSE ""

\* evaluateExpectation was called with a regex expectation, and whether its
\* pattern and flags make a regular expression.
RegexCall(valid) ==
  /\ IsSome(expResult)
  /\ expExpectation.type = "regex"
  /\ RegExpCompiles(expExpectation.value.s, FlagsOf(expExpectation)) <=> valid

\* C18: evaluateExpectation never throws for a well-typed expectation and
\* an output string, a regex expectation with an invalid pattern included:
\* it returns an ExpectationResult for the expectation it was given.
C18_NeverThrows ==
  IsSome(expResult) =>
    /\ ~expResult[1].threw
    /\ IsSome(expResult[1].value)
    /\ expResult[1].value[1].expectation = expExpectation
    /\ expResult[1].value[1].passed \in BOOLEAN

\* C18 witness: evaluateExpectation has returned a result for a regex
\* expectation whose flags are not flags.
C18_Witness ==
  /\ RegexCall(FALSE)
  /\ FlagsOf(expExpectation) = "x"
  /\ ~expResult[1].threw
  /\ ~expResult[1].value[1].passed

\* The pattern occurs in the output from position k + 1 on, under the flags.
MatchesAt(pattern, flags, output, k) ==
  /\ k + Len(pattern) <= Len(output)
  /\ \A j \in 1..Len(pattern) :
       \/ pattern[j] = "."
       \/ pattern[j] = output[k + j]
       \/ flags = "i" /\ LowerChar(pattern[j]) = LowerChar(output[k + j])

\* C19: for every valid pattern and flags, evaluateRegex returns
\* passed = true exactly when the pattern matches somewhere in the output,
\* and then the details record the full text of that (the leftmost) match;
\* when the pattern does not match, passed = false and the details say
\* matched = false.
C19_RegexMatchDetails ==
  RegexCall(TRUE) =>
    LET result == expResult[1].value[1]
        pattern == expExpectation.value.s
        flags == FlagsOf(expExpectation)
        starts == {k \in 0..Len(expOutput) :
                     MatchesAt(pattern, flags, expOutput, k)}
        first == CHOOSE k \in starts : \A other \in starts : k <= other
    IN  /\ result.passed <=> starts # {}
        /\ result.passed =>
             /\ result.details.kind = "regex"
             /\ result.details.flag
             /\ result.details.text
                  = Some(SubSeq(expOutput, first + 1, first + Len(pattern)))
        /\ ~result.passed =>
             /\ result.details.kind = "regex"
             /\ ~result.details.flag

\* C20 as stated: for a regex expectation whose pattern is invalid,
\* evaluateRegex returns a failed result with an error message and no
\* details.
C20_InvalidPatternNoDetails ==
  RegexCall(FALSE) =>
    LET result == expResult[1].value[1]
    IN  /\ ~result.passed
        /\ IsSome(result.error)
        /\ result.details = NoDetails

\* C20, amended: for a regex expectation whose pattern is invalid,
\* evaluateRegex returns a failed result with the error message "Invalid
\* regex pattern: ..." and with details that carry the pattern and the
\* error, and no matched or match entry.
C20_InvalidPatternFails ==
  RegexCall(FALSE) =>
    LET result == expResult[1].value[1]
    IN  /\ ~result.passed
        /\ result.error = Some("Invalid regex pattern")
        /\ result.details.kind = "regexError"
        /\ result.details.text = Some(expExpectation.value.s)

\* C20 witness: evaluateRegex has returned for a pattern with an
\* unterminated group, on an output that holds the pattern's text.
C20_Witness ==
  /\ RegexCall(FALSE)
  /\ FlagsOf(expExpectation) = ""
  /\ expExpectation.value.s = <<"a", "(">>
  /\ Includes(expOutput, <<"a">>)
  /\ ~expResult[1].value[1].passed

\* C26: for all texts, diffText's output accounts for every input line
\* once and in order: the unchanged and removed entries are the old lines,
\* numbered 1..m ascending, the unchanged and added entries are the new
\* lines, so unchangedCount + removedCount is the number of old lines and
\* unchangedCount + addedCount the number of new lines.
C26_EveryLineOnce ==
  IsSome(forward) =>
    LET oldLines == SplitLines(oldText)
        newLines == SplitLines(newText)
        result == forward[1]
        fromOld == SelectSeq(result.lines, LAMBDA e : e.type \in {"unchanged", "removed"})
        fromNew == SelectSeq(result.lines, LAMBDA e : e.type \in {"unchanged", "added"})
    IN  /\ [k \in 1..Len(fromOld) |-> fromOld[k].content] = oldLines
        /\ [k \in 1..Len(fromOld) |-> fromOld[k].lineNumber]
             = [k \in 1..Len(oldLines) |-> Some(k)]
        /\ [k \in 1..Len(fromNew) |-> fromNew[k].content] = newLines
        /\ result.unchangedCount + result.removedCount = Len(oldLines)
        /\ result.unchangedCount + result.addedCount = Len(newLines)

\* C26 witness: a diff with entries of all three types has been computed.
C26_Witness ==
  /\ IsSome(forward)
  /\ forward[1].unchangedCount > 0
  /\ forward[1].removedCount > 0
  /\ forward[1].addedCount > 0

\* C27: in the table of the line diff a cell for two unequal lines is
\* 1 + min(cell above, cell to the left): a substitution costs a deletion
\* plus an insertion, never less.
C27_SubstitutionCost ==
  IsSome(forward) =>
    LET oldLines == SplitLines(oldText)
        newLines == SplitLines(newText)
        dp == DpRows(oldLines, newLines, Len(oldLines))
    IN  \A r \in 1..Len(oldLines) : \A c \in 1..Len(newLines) :
          oldLines[r] # newLines[c] =>
            dp[r + 1][c + 1] = 1 + Min2(dp[r][c + 1], dp[r + 1][c])

\* C21: when a fixture that renders and gets an output holds an expectation
\* with a malformed value, its scoring does not fail: the FixtureResult has
\* no fixture-level error and holds one ExpectationResult per expectation
\* (the malformed one failed), and the batch goes on.
C21_ScoringNeverFails ==
  \A k \in 1..Len(fixtureResults) :
    InLog(scoredLog, k) =>
      LET r == fixtureResults[k]
      IN  /\ r.error = None
          /\ Len(r.expectationResults) = Len(r.fixture.expectations)

\* An aggregation call has returned (not thrown).
Aggregated == IsSome(aggregated) /\ ~aggregated[1].threw

\* The sum of a counter over the aggregated runs.
SumOfRuns(runs, Counter(_)) == Sum([k \in 1..Len(runs) |-> Counter(runs[k])])

\* C22: for every non-empty list of runs, aggregateResults returns
\* overallPassRate = (sum of the runs' passedFixtures) / (sum of the runs'
\* totalFixtures), 0 if that sum is 0, and not the mean of the runs' rates.
C22_OverallPassRate ==
  Aggregated =>
    LET result == aggregated[1].value[1]
        passed == SumOfRuns(result.runs, LAMBDA r : r.passedFixtures)
        total == SumOfRuns(result.runs, LAMBDA r : r.totalFixtures)
        rate == result.overallPassRate
    IN  /\ rate.den > 0
        /\ IF total = 0 THEN rate.num = 0
           ELSE rate.num * total = passed * rate.den

\* C22 witness: aggregateResults has returned for two runs whose overall
\* pass rate is not the mean of their pass rates.
C22_Witness ==
  /\ Aggregated
  /\ aggCall.fn = "aggregateResults"
  /\ LET result == aggregated[1].value[1]
     IN  /\ result.totalRuns = 2
         /\ result.overallPassRate.num * result.averagePassRate.den
              # result.averagePassRate.num * result.overallPassRate.den

\* C23: for runs produced by the runner, the aggregated totalFailed is the
\* sum of the runs' failedFixtures, so the aggregated view reports a
\* failure (totalFailed > 0) exactly when some run has failedFixtures > 0.
C23_FailureCountConsistent ==
  Aggregated =>
    LET result == aggregated[1].value[1]
    IN  /\ result.totalFailed = SumOfRuns(result.runs, LAMBDA r : r.failedFixtures)
        /\ result.totalFailed > 0
             <=> \E k \in 1..Len(result.runs) : result.runs[k].failedFixtures > 0

\* C23 witness: an aggregation over a run without failures and a run with
\* a fixture that failed an expectation without a fixture-level error.
C23_Witness ==
  /\ Aggregated
  /\ LET result == aggregated[1].value[1]
     IN  /\ \E k \in 1..Len(result.runs) : result.runs[k].failedFixtures = 0
         /\ \E k \in 1..Len(result.allFixtureResults) :
              /\ ~result.allFixtureResults[k].passed
              /\ result.allFixtureResults[k].error = None
         /\ result.totalFailed > 0

\* C29: aggregatePromptResults(promptName) returns statistics for that
\* prompt only: every fixture result in allFixtureResults (the ones its
\* totals count) belongs to a fixture whose reference names promptName.
C29_PromptOnly ==
  (Aggregated /\ aggCall.fn = "aggregatePromptResults") =>
    LET result == aggregated[1].value[1]
    IN  /\ result.totalFixtures = Len(result.allFixtureResults)
        /\ \A k \in 1..Len(result.allFixtureResults) :
             LET ref == parsePromptRef(result.allFixtureResults[k].fixture.prompt)
             IN  ~ref.threw /\ ref.value[1].name = aggCall.promptName

\* C28: every run saved under a generated filename is stored in its own
\* results file: a save never replaces the file of an earlier run, also
\* when several runs are saved in quick succession.  Every run ever saved,
\* by this invocation or an earlier one, is still the content of the file
\* it was written to.
C28_NoOverwrite ==
  entry = "eval" =>
    \A k \in 1..Len(savedLog) :
      [filename |-> savedLog[k].filename, run |-> savedLog[k].run] \in runsDir

\* The names a template refers to.
Referenced(template) == {template[k].text : k \in {j \in 1..Len(template) : template[j].var}}

\* The text a render has to produce: a provided placeholder gives way to
\* the string form of its value, a missing one to whenMissing.
Expected(template, variables, whenMissing) ==
  [k \in 1..Len(template) |->
     IF ~template[k].var THEN template[k]
     ELSE IF template[k].text \in DOMAIN variables
          THEN [var |-> FALSE, text |-> IF variables[template[k].text].t = "null" THEN "" ELSE variables[template[k].text].text]
          ELSE [var |-> FALSE, text |-> whenMissing]]

\* The renderer was called with this function and has ended.
Rendered(fn) == entry = "render" /\ renderCall.fn = fn /\ renderOutcome # None

\* C24: with the strategy "error", renderTemplate fails whenever a
\* placeholder of the template has no entry in the variable map, the
\* failure comes before any substitution (no text is returned) and its
\* message names every missing variable; when nothing is missing it returns
\* the fully substituted text.
C24_ErrorStrategy ==
  (Rendered("renderTemplate") /\ renderCall.options.missingVariableStrategy = <<"error">>) =>
    LET absent == Referenced(renderCall.template) \ DOMAIN renderCall.variables
        out == renderOutcome[1]
    IN  IF absent # {}
        THEN /\ out.threw
             /\ {out.message.missing[k] : k \in 1..Len(out.message.missing)} = absent
        ELSE /\ ~out.threw
             /\ out.value[1] = Expected(renderCall.template, renderCall.variables, "")

\* The placeholder string the call configured.
Configured(options) ==
  IF options.missingVariablePlaceholder = <<>> THEN "{{MISSING}}"
  ELSE options.missingVariablePlaceholder[1]

\* The call asked for the "warn" strategy, or left the strategy out.
UnderWarn == renderCall.options.missingVariableStrategy \in {<<>>, <<"warn">>}

\* C25: under the "warn" strategy rendering always succeeds: every missing
\* placeholder is replaced by the configured placeholder string (by default
\* "{{MISSING}}"), every provided one by its value, and
\* renderTemplateWithMetadata reports as missingVariables exactly the names
\* the template refers to that the variable map does not have.
C25_WarnStrategy ==
  /\ (Rendered("renderTemplate") /\ UnderWarn) =>
       /\ ~renderOutcome[1].threw
       /\ renderOutcome[1].value[1] = Expected(renderCall.template, renderCall.variables, Configured(renderCall.options))
  /\ (Rendered("renderTemplateWithMetadata") /\ UnderWarn) =>
       /\ ~renderOutcome[1].threw
       /\ renderOutcome[1].value[1].rendered = Expected(renderCall.template, renderCall.variables, Configured(renderCall.options))
       /\ LET reported == renderOutcome[1].value[1].missingVariables
          IN  /\ {reported[k] : k \in 1..Len(reported)} = Referenced(renderCall.template) \ DOMAIN renderCall.variables
              /\ \A j, k \in 1..Len(reported) : reported[j] = reported[k] => j = k

\* A JSONL line holding a fixture whose one expectation is a contains
\* expectation with the empty string as its value.
EmptyContainsLine ==
  JsonLine([prompt |-> Some(<<"greet", "v1">>), variables |-> Some(Alice),
            expectations |-> Some(<<ContainsExp(Str(<<>>))>>)])

\* C30: a fixture whose contains expectation has the empty string as its
\* value is a valid fixture: a JSONL file all of whose lines are blank or
\* hold such a fixture is never rejected when it is loaded, and once the
\* fixture has been scored its expectation has passed.
C30_EmptyContainsValid ==
  (entry = "file" /\ \A k \in 1..Len(fileLines) : fileLines[k] \in {BlankLine, EmptyContainsLine}) =>
    /\ pc # "thrown"
    /\ \A k \in 1..Len(fixtureResults) :
         \A e \in 1..Len(fixtureResults[k].expectationResults) :
           fixtureResults[k].expectationResults[e].passed

====
